---- MODULE Spec2Model ----
(***************************************************************************)
(* FetchSERP MCP server (src/index.js and the HTTPS variant in             *)
(* src/unnamed/part_001): the tool catalog, the dispatcher handleToolCall, *)
(* the HTTP helper makeRequest, the CallTool handler and the /sse endpoint *)
(* with its session map and the instance field currentToken.               *)
(***************************************************************************)
EXTENDS Integers, Sequences, FiniteSets, TLC

(***************************************************************************)
(* JavaScript values.  One record shape for every kind, so that any two    *)
(* values can be compared: t is the kind, s the string, n the number, a    *)
(* the array elements, o the object members in insertion order.            *)
(***************************************************************************)
JV(t, s, n, a, o) == [t |-> t, s |-> s, n |-> n, a |-> a, o |-> o]
Undef == JV("undef", "", 0, <<>>, <<>>)
Null == JV("null", "", 0, <<>>, <<>>)
Str(s) == JV("str", s, 0, <<>>, <<>>)
Num(n) == JV("num", "", n, <<>>, <<>>)
Inf == JV("inf", "", 0, <<>>, <<>>)
Arr(a) == JV("arr", "", 0, a, <<>>)
Obj(o) == JV("obj", "", 0, <<>>, o)
Member(k, v) == [k |-> k, v |-> v]

\* obj[key]: the value of the member named key, undefined when there is none
Get(obj, key) ==
  IF \E i \in DOMAIN obj.o : obj.o[i].k = key
    THEN obj.o[CHOOSE i \in DOMAIN obj.o : obj.o[i].k = key].v
    ELSE Undef

\* Object.keys(obj)
Keys(obj) == {obj.o[i].k : i \in DOMAIN obj.o}

RECURSIVE FilterMembers(_, _)
FilterMembers(ms, drop) ==
  IF ms = <<>> THEN <<>>
  ELSE IF Head(ms).k \in drop THEN FilterMembers(Tail(ms), drop)
  ELSE <<Head(ms)>> \o FilterMembers(Tail(ms), drop)

\* const { a, b, ...rest } = obj : the members of obj not named in drop
Rest(obj, drop) == FilterMembers(obj.o, drop)

\* { key: v, ...rest } : key first, then the rest members
Literal(first, rest) == Obj(first \o rest)

RECURSIVE JSString(_)
RECURSIVE JoinStr(_)
\* Array.prototype.join(",")
JoinStr(a) ==
  IF a = <<>> THEN ""
  ELSE IF Len(a) = 1 THEN JSString(Head(a))
  ELSE JSString(Head(a)) \o "," \o JoinStr(Tail(a))

\* String(v), v.toString() and template-literal interpolation of v
JSString(v) ==
  CASE v.t = "str" -> v.s
    [] v.t = "num" -> ToString(v.n)
    [] v.t = "inf" -> "Infinity"
    [] v.t = "null" -> "null"
    [] v.t = "undef" -> "undefined"
    [] v.t = "arr" -> JoinStr(v.a)
    [] OTHER -> "[object Object]"

\* truthiness of a value that is a string, null or undefined
Truthy(v) == v.t = "str" /\ v.s # ""

(***************************************************************************)
(* The tool catalog returned by the ListTools handler: name, declared      *)
(* property names and required names, in the order of the source.          *)
(***************************************************************************)
Tool(name, props, required) == [name |-> name, props |-> props, required |-> required]

ToolCatalog ==
  << Tool("get_backlinks", {"domain", "search_engine", "country", "pages_number"}, {"domain"}),
     Tool("get_domain_emails", {"domain", "search_engine", "country", "pages_number"}, {"domain"}),
     Tool("get_domain_info", {"domain"}, {"domain"}),
     Tool("get_keywords_search_volume", {"keywords", "country"}, {"keywords"}),
     Tool("get_keywords_suggestions", {"url", "keywords", "country"}, {}),
     Tool("get_long_tail_keywords", {"keyword", "search_intent", "count"}, {"keyword"}),
     Tool("get_moz_analysis", {"domain"}, {"domain"}),
     Tool("check_page_indexation", {"domain", "keyword"}, {"domain", "keyword"}),
     Tool("get_domain_ranking", {"keyword", "domain", "search_engine", "country", "pages_number"}, {"keyword", "domain"}),
     Tool("scrape_webpage", {"url"}, {"url"}),
     Tool("scrape_domain", {"domain", "max_pages"}, {"domain"}),
     Tool("scrape_webpage_js", {"url", "js_script"}, {"url", "js_script"}),
     Tool("scrape_webpage_js_proxy", {"url", "country", "js_script"}, {"url", "country", "js_script"}),
     Tool("get_serp_results", {"query", "search_engine", "country", "pages_number"}, {"query"}),
     Tool("get_serp_html", {"query", "search_engine", "country", "pages_number"}, {"query"}),
     Tool("get_serp_js_start", {"query", "country", "pages_number"}, {"query"}),
     Tool("get_serp_js_result", {"uuid"}, {"uuid"}),
     Tool("get_serp_text", {"query", "search_engine", "country", "pages_number"}, {"query"}),
     Tool("get_user_info", {}, {}),
     Tool("get_webpage_ai_analysis", {"url", "prompt"}, {"url", "prompt"}),
     Tool("get_webpage_seo_analysis", {"url"}, {"url"}) >>

ListedNames == {ToolCatalog[i].name : i \in DOMAIN ToolCatalog}

\* the declared property names of a listed tool
DeclaredProps(name) ==
  IF name \in ListedNames
    THEN ToolCatalog[CHOOSE i \in DOMAIN ToolCatalog : ToolCatalog[i].name = name].props
    ELSE {}

\* the required names of a listed tool
RequiredProps(name) ==
  IF name \in ListedNames
    THEN ToolCatalog[CHOOSE i \in DOMAIN ToolCatalog : ToolCatalog[i].name = name].required
    ELSE {}

\* the declared type of a property: 'integer' for the page and result
\* counts, 'array' for keywords, 'string' for every other property
PropType(prop) ==
  IF prop \in {"pages_number", "count", "max_pages"} THEN "num"
  ELSE IF prop = "keywords" THEN "arr"
  ELSE "str"

\* the declared minimum and maximum of the integer properties: max_pages has
\* a maximum only, pages_number of get_serp_js_start a maximum of its own
InBounds(name, prop, n) ==
  CASE prop = "max_pages" -> n <= 200
    [] prop = "count" -> n >= 1 /\ n <= 500
    [] prop = "pages_number" /\ name = "get_serp_js_start" -> n >= 1 /\ n <= 10
    [] prop = "pages_number" /\ name # "get_serp_js_start" -> n >= 1 /\ n <= 30
    [] OTHER -> TRUE

API_BASE_URL == "https://www.fetchserp.com"


(***************************************************************************)
(* JSON.  A JSON text is kept as its syntax tree in the same record shape: *)
(* kind "lit" is a number literal with mantissa n and decimal exponent     *)
(* suffix s ("" or ExpBig), kind "garbage" is a text that is not JSON.     *)
(***************************************************************************)
ExpBig == "e999"
Lit(n, e) == JV("lit", e, n, <<>>, <<>>)
Garbage(s) == JV("garbage", s, 0, <<>>, <<>>)

RECURSIVE RawText(_)
RECURSIVE RawElems(_)
RECURSIVE RawMembers(_)
\* the characters of a body: what response.text() returns
RawText(w) ==
  CASE w.t = "lit" -> ToString(w.n) \o w.s
    [] w.t = "str" -> "'" \o w.s \o "'"
    [] w.t = "null" -> "null"
    [] w.t = "arr" -> "[" \o RawElems(w.a) \o "]"
    [] w.t = "obj" -> "{" \o RawMembers(w.o) \o "}"
    [] OTHER -> w.s
RawElems(a) ==
  IF a = <<>> THEN ""
  ELSE IF Len(a) = 1 THEN RawText(Head(a))
  ELSE RawText(Head(a)) \o "," \o RawElems(Tail(a))
RawMembers(o) ==
  IF o = <<>> THEN ""
  ELSE IF Len(o) = 1 THEN "'" \o Head(o).k \o "':" \o RawText(Head(o).v)
  ELSE "'" \o Head(o).k \o "':" \o RawText(Head(o).v) \o "," \o RawMembers(Tail(o))

RECURSIVE JSONparse(_)
RECURSIVE ParseElems(_)
RECURSIVE ParseMembers(_)
\* JSON.parse / response.json() on a JSON text: a literal beyond the range
\* of a double becomes Infinity
JSONparse(w) ==
  CASE w.t = "lit" -> IF w.s = ExpBig /\ w.n # 0 THEN Inf ELSE Num(w.n)
    [] w.t = "arr" -> Arr(ParseElems(w.a))
    [] w.t = "obj" -> Obj(ParseMembers(w.o))
    [] OTHER -> w
ParseElems(a) ==
  IF a = <<>> THEN <<>> ELSE <<JSONparse(Head(a))>> \o ParseElems(Tail(a))
ParseMembers(o) ==
  IF o = <<>> THEN <<>>
  ELSE <<Member(Head(o).k, JSONparse(Head(o).v))>> \o ParseMembers(Tail(o))

RECURSIVE JSONstringify(_)
RECURSIVE StringifyElems(_)
RECURSIVE StringifyMembers(_)
\* JSON.stringify: a non-finite number and an undefined array element are
\* written as null, a member whose value is undefined is left out
JSONstringify(v) ==
  CASE v.t = "num" -> Lit(v.n, "")
    [] v.t = "inf" -> Null
    [] v.t = "undef" -> Null
    [] v.t = "arr" -> Arr(StringifyElems(v.a))
    [] v.t = "obj" -> Obj(StringifyMembers(v.o))
    [] OTHER -> v
StringifyElems(a) ==
  IF a = <<>> THEN <<>> ELSE <<JSONstringify(Head(a))>> \o StringifyElems(Tail(a))
StringifyMembers(o) ==
  IF o = <<>> THEN <<>>
  ELSE IF Head(o).v.t = "undef" THEN StringifyMembers(Tail(o))
  ELSE <<Member(Head(o).k, JSONstringify(Head(o).v))>> \o StringifyMembers(Tail(o))

(***************************************************************************)
(* Errors.  An McpError carries a code; any other exception is "Error".    *)
(***************************************************************************)
Throw(code, message) == [kind |-> "throw", code |-> code, message |-> message]
NoError == [kind |-> "none", code |-> "", message |-> <<>>]
IsMcpError(e) == e.code \in {"InvalidRequest", "InternalError", "MethodNotFound"}

(***************************************************************************)
(* handleToolCall: the switch over the tool name.  Its result is the call  *)
(* of makeRequest it performs (endpoint, method, params, body) or the      *)
(* exception it raises.                                                    *)
(***************************************************************************)
Call(endpoint, method, params, body) ==
  [kind |-> "call", endpoint |-> endpoint, method |-> method,
   params |-> params, body |-> body, error |-> NoError]
Raise(e) ==
  [kind |-> "raise", endpoint |-> "", method |-> "", params |-> Undef,
   body |-> Null, error |-> e]

\* a switch that lacks the case of get_moz_analysis
CaseNamesLacking ==
  << "get_backlinks", "get_domain_emails", "get_domain_info",
     "get_keywords_search_volume", "get_keywords_suggestions",
     "get_long_tail_keywords", "check_page_indexation",
     "get_domain_ranking", "scrape_webpage", "scrape_domain",
     "scrape_webpage_js", "scrape_webpage_js_proxy", "get_serp_results",
     "get_serp_html", "get_serp_js_start", "get_serp_js_result",
     "get_serp_text", "get_user_info", "get_webpage_ai_analysis",
     "get_webpage_seo_analysis" >>

\* the case labels of the switch, in source order
CaseNames ==
  << "get_backlinks", "get_domain_emails", "get_domain_info",
     "get_keywords_search_volume", "get_keywords_suggestions",
     "get_long_tail_keywords", "get_moz_analysis", "check_page_indexation",
     "get_domain_ranking", "scrape_webpage", "scrape_domain",
     "scrape_webpage_js", "scrape_webpage_js_proxy", "get_serp_results",
     "get_serp_html", "get_serp_js_start", "get_serp_js_result",
     "get_serp_text", "get_user_info", "get_webpage_ai_analysis",
     "get_webpage_seo_analysis" >>

HasCase(name) == \E i \in DOMAIN CaseNames : CaseNames[i] = name

\* the fixed path and the method of each case of the switch; get_serp_js_result
\* appends the uuid to its path
CasePath(name) ==
  CASE name = "get_backlinks" -> "/api/v1/backlinks"
    [] name = "get_domain_emails" -> "/api/v1/domain_emails"
    [] name = "get_domain_info" -> "/api/v1/domain_infos"
    [] name = "get_keywords_search_volume" -> "/api/v1/keywords_search_volume"
    [] name = "get_keywords_suggestions" -> "/api/v1/keywords_suggestions"
    [] name = "get_long_tail_keywords" -> "/api/v1/long_tail_keywords_generator"
    [] name = "get_moz_analysis" -> "/api/v1/moz"
    [] name = "check_page_indexation" -> "/api/v1/page_indexation"
    [] name = "get_domain_ranking" -> "/api/v1/ranking"
    [] name = "scrape_webpage" -> "/api/v1/scrape"
    [] name = "scrape_domain" -> "/api/v1/scrape_domain"
    [] name = "scrape_webpage_js" -> "/api/v1/scrape_js"
    [] name = "scrape_webpage_js_proxy" -> "/api/v1/scrape_js_with_proxy"
    [] name = "get_serp_results" -> "/api/v1/serp"
    [] name = "get_serp_html" -> "/api/v1/serp_html"
    [] name = "get_serp_js_start" -> "/api/v1/serp_js"
    [] name = "get_serp_js_result" -> "/api/v1/serp_js/"
    [] name = "get_serp_text" -> "/api/v1/serp_text"
    [] name = "get_user_info" -> "/api/v1/user"
    [] name = "get_webpage_ai_analysis" -> "/api/v1/web_page_ai_analysis"
    [] name = "get_webpage_seo_analysis" -> "/api/v1/web_page_seo_analysis"
    [] OTHER -> ""

CaseMethod(name) ==
  IF name \in {"scrape_webpage_js", "scrape_webpage_js_proxy"} THEN "POST"
  ELSE IF HasCase(name) THEN "GET"
  ELSE ""

\* a parameter passed as undefined takes its default: params = {}
ParamsOrDefault(args) == IF args.t = "undef" THEN Obj(<<>>) ELSE args

TypeError == Throw("Error", <<"TypeError">>)

handleToolCall(name, args) ==
  CASE name = "scrape_webpage_js" ->
         IF args.t = "undef" THEN Raise(TypeError)
         ELSE Call(CasePath(name), "POST",
                   Literal(<<Member("url", Get(args, "url"))>>,
                           Rest(args, {"url", "js_script"})),
                   Obj(<<Member("url", Get(args, "url")),
                         Member("js_script", Get(args, "js_script"))>>))
    [] name = "scrape_webpage_js_proxy" ->
         IF args.t = "undef" THEN Raise(TypeError)
         ELSE Call(CasePath(name), "POST",
                   Literal(<<Member("url", Get(args, "url")),
                             Member("country", Get(args, "country"))>>,
                           Rest(args, {"url", "country", "js_script"})),
                   Obj(<<Member("url", Get(args, "url")),
                         Member("js_script", Get(args, "js_script"))>>))
    [] name = "get_serp_js_result" ->
         IF args.t = "undef" THEN Raise(TypeError)
         ELSE Call(CasePath(name) \o JSString(Get(args, "uuid")), "GET", Obj(<<>>), Null)
    [] name = "get_user_info" ->
         Call(CasePath(name), "GET", Obj(<<>>), Null)
    [] HasCase(name) /\ name \notin {"scrape_webpage_js", "scrape_webpage_js_proxy",
                                            "get_serp_js_result", "get_user_info"} ->
         Call(CasePath(name), "GET", ParamsOrDefault(args), Null)
    [] OTHER -> Raise(Throw("MethodNotFound", <<"Unknown tool: ", name>>))


(***************************************************************************)
(* makeRequest, up to the call of fetch: the token choice, the URL with    *)
(* its query string, the headers and the body.                             *)
(***************************************************************************)
RECURSIVE ArrayEntries(_, _)
\* value.forEach(v => url.searchParams.append(`${key}[]`, v))
ArrayEntries(key, a) ==
  IF a = <<>> THEN <<>>
  ELSE <<Member(key \o "[]", JSString(Head(a)))>> \o ArrayEntries(key, Tail(a))

RECURSIVE QueryEntries(_)
\* Object.entries(params).forEach(...): undefined and null values are skipped
QueryEntries(ms) ==
  IF ms = <<>> THEN <<>>
  ELSE LET key == Head(ms).k
           value == Head(ms).v
       IN (IF value.t \in {"undef", "null"} THEN <<>>
           ELSE IF value.t = "arr" THEN ArrayEntries(key, value.a)
           ELSE <<Member(key, JSString(value))>>)
          \o QueryEntries(Tail(ms))

\* query parameters added whatever the method
SearchParamsAnyMethod(method, params) ==
  IF Keys(params) # {} THEN QueryEntries(params.o) ELSE <<>>

\* the query parameters are added for GET requests only
SearchParams(method, params) ==
  IF method = "GET" /\ Keys(params) # {} THEN QueryEntries(params.o) ELSE <<>>

\* fetchOptions.body is set only for a body that is truthy and a method that
\* is not GET
FetchBody(method, body) ==
  IF body.t # "null" /\ method # "GET" THEN JSONstringify(body) ELSE Undef

\* a choice that prefers the token of the environment
FetchserpTokenEnvFirst(token, env) == IF Truthy(env) THEN env ELSE token

\* token || process.env.FETCHSERP_API_TOKEN
FetchserpToken(token, env) == IF Truthy(token) THEN token ELSE env

NoRequest ==
  [url |-> [origin |-> "", pathname |-> "", searchParams |-> <<>>],
   method |-> "", Authorization |-> "", ContentType |-> "", body |-> Undef]

\* new URL(`${API_BASE_URL}${endpoint}`): the endpoint is parsed, not copied.
\* What follows the first '#' is the fragment and is not sent; what follows
\* the first '?' before it is the query; the rest is the path, whose '.' and
\* '..' segments are resolved.
RECURSIVE IndexFrom(_, _, _)
\* the first position at or after i where s has the character ch, 0 if none
IndexFrom(s, ch, i) ==
  IF i > Len(s) THEN 0
  ELSE IF SubSeq(s, i, i) = ch THEN i
  ELSE IndexFrom(s, ch, i + 1)

\* s before its first ch (all of s when it has none), and s after it
Before(s, ch) ==
  IF IndexFrom(s, ch, 1) = 0 THEN s ELSE SubSeq(s, 1, IndexFrom(s, ch, 1) - 1)
After(s, ch) ==
  IF IndexFrom(s, ch, 1) = 0 THEN "" ELSE SubSeq(s, IndexFrom(s, ch, 1) + 1, Len(s))

RECURSIVE Split(_, _)
\* the parts of s between the occurrences of ch
Split(s, ch) ==
  IF IndexFrom(s, ch, 1) = 0 THEN <<s>>
  ELSE <<Before(s, ch)>> \o Split(After(s, ch), ch)

RECURSIVE ResolveDots(_, _)
\* the path segments after '.' and '..' have been resolved: '..' removes the
\* segment before it, and a last '.' or '..' leaves an empty last segment
ResolveDots(segments, path) ==
  IF segments = <<>> THEN path
  ELSE LET segment == Head(segments)
           last == Len(segments) = 1
           popped == IF path = <<>> THEN <<>> ELSE SubSeq(path, 1, Len(path) - 1)
       IN ResolveDots(Tail(segments),
                      IF segment = ".." THEN (IF last THEN Append(popped, "") ELSE popped)
                      ELSE IF segment = "." THEN (IF last THEN Append(path, "") ELSE path)
                      ELSE Append(path, segment))

RECURSIVE JoinPath(_)
JoinPath(path) == IF path = <<>> THEN "" ELSE "/" \o Head(path) \o JoinPath(Tail(path))

\* url.pathname
Pathname(endpoint) ==
  LET raw == Before(Before(endpoint, "#"), "?")
      resolved == JoinPath(ResolveDots(Tail(Split(raw, "/")), <<>>))
  IN IF resolved = "" THEN "/" ELSE resolved

RECURSIVE QueryPairs(_)
\* the name=value pairs of a query, in order
QueryPairs(parts) ==
  IF parts = <<>> THEN <<>>
  ELSE (IF Head(parts) = "" THEN <<>>
        ELSE <<Member(Before(Head(parts), "="), After(Head(parts), "="))>>)
       \o QueryPairs(Tail(parts))

\* url.searchParams right after the URL has been parsed
EndpointQuery(endpoint) == QueryPairs(Split(After(Before(endpoint, "#"), "?"), "&"))

FetchRequest(endpoint, method, params, body, fetchserpToken) ==
  [url |-> [origin |-> API_BASE_URL, pathname |-> Pathname(endpoint),
            searchParams |-> EndpointQuery(endpoint) \o SearchParams(method, params)],
   method |-> method,
   Authorization |-> "Bearer " \o fetchserpToken.s,
   ContentType |-> "application/json",
   body |-> FetchBody(method, body)]

\* the part of makeRequest before `await fetch`: the exception raised or the
\* request handed to fetch
makeRequest(endpoint, method, params, body, token, env) ==
  IF ~Truthy(FetchserpToken(token, env))
    THEN [error |-> Throw("InvalidRequest", <<"FETCHSERP_API_TOKEN is required">>),
          request |-> NoRequest]
    ELSE [error |-> NoError,
          request |-> FetchRequest(endpoint, method, params, body,
                                   FetchserpToken(token, env))]

(***************************************************************************)
(* The upstream answer.  kind "reject": fetch fails (network); kind        *)
(* "response": a status line and a body; readable is FALSE when reading    *)
(* the body fails.                                                         *)
(***************************************************************************)
Response(status, statusText, body, readable) ==
  [kind |-> "response", status |-> status, statusText |-> statusText,
   body |-> body, readable |-> readable]
Reject == [kind |-> "reject", status |-> 0, statusText |-> "", body |-> Null, readable |-> FALSE]

\* a check of the status that lets redirections through
OkBelow400(response) == response.status >= 200 /\ response.status <= 399

\* response.ok
Ok(response) == response.status >= 200 /\ response.status <= 299

Return(v) == [kind |-> "return", value |-> v, error |-> NoError]
Raised(e) == [kind |-> "raise", value |-> Undef, error |-> e]

\* `API request failed: ${response.status} ${response.statusText} - ${errorText}`
ApiErrorMessage(response) ==
  <<"API request failed: ", ToString(response.status), " ", response.statusText,
    " - ", RawText(response.body)>>

\* a makeRequest that gives null for a 2xx body it cannot parse
makeRequestResultLenient(response) ==
  IF response.kind = "reject" THEN Raised(Throw("Error", <<"FetchError">>))
  ELSE IF ~Ok(response)
    THEN IF ~response.readable THEN Raised(Throw("Error", <<"FetchError">>))
         ELSE Raised(Throw("InternalError", ApiErrorMessage(response)))
  ELSE IF ~response.readable \/ response.body.t = "garbage"
    THEN Return(Null)
  ELSE Return(JSONparse(response.body))

\* the part of makeRequest after `await fetch`
makeRequestResult(response) ==
  IF response.kind = "reject" THEN Raised(Throw("Error", <<"FetchError">>))
  ELSE IF ~Ok(response)
    THEN IF ~response.readable THEN Raised(Throw("Error", <<"FetchError">>))
         ELSE Raised(Throw("InternalError", ApiErrorMessage(response)))
  ELSE IF ~response.readable \/ response.body.t = "garbage"
    THEN Raised(Throw("Error", <<"invalid json response body">>))
  ELSE Return(JSONparse(response.body))

(***************************************************************************)
(* The CallTool handler: the result it returns or the McpError it throws.  *)
(***************************************************************************)
TextContent(text) == [type |-> "text", text |-> text]
ToolResult(content) == [kind |-> "result", content |-> content, error |-> NoError]
ToolError(e) == [kind |-> "error", content |-> <<>>, error |-> e]

\* a catch that wraps every error, McpError or not
CatchErrorWrapAll(e) == Throw("InternalError", <<"Tool execution failed: ">> \o e.message)

\* catch (error): an McpError is re-thrown, anything else becomes InternalError
CatchError(e) ==
  IF IsMcpError(e) THEN e
  ELSE Throw("InternalError", <<"Tool execution failed: ">> \o e.message)

\* a handler that wraps the upstream value in an envelope of its own
CallToolOutcomeEnvelope(r) ==
  IF r.kind = "return"
    THEN ToolResult(<<TextContent(JSONstringify(Obj(<<Member("data", r.value)>>)))>>)
    ELSE ToolError(CatchError(r.error))

\* the handler's outcome for an outcome of handleToolCall
CallToolOutcome(r) ==
  IF r.kind = "return"
    THEN ToolResult(<<TextContent(JSONstringify(r.value))>>)
    ELSE ToolError(CatchError(r.error))


(***************************************************************************)
(* The server process.                                                     *)
(***************************************************************************)
\* bounds of the model
MaxReq == 2
MaxTransports == 2
MaxArgs == 2
MaxElems == 2
MaxChunks == 2

VARIABLES
  certs,         \* ./certs of the HTTPS variant and the calls of createSelfSignedCerts
  client,        \* the example script that runs: its call of httpRequest, or main
  launch,        \* how the process was started: the program and its environment
  mode,          \* "stdio", "http" (index.js), "https" (part_001), "mcp" or "failed" (env-token)
  envToken,      \* process.env.FETCHSERP_API_TOKEN
  currentToken,  \* this.currentToken
  transports,    \* the session map of run (HTTP mode): session id -> transport
  sessionOf,     \* transport.sessionId of every transport created so far
  connected,     \* the transport of the last this.server.connect, 0 if none
  reqs           \* the inbound requests being handled, by slot

vars == <<certs, client, launch, mode, envToken, currentToken, transports, sessionOf, connected, reqs>>

Slots == 1..MaxReq

NoRpc == [kind |-> "none", content |-> <<>>, error |-> NoError]
NoResponse == [kind |-> "none", status |-> 0, statusText |-> "", body |-> Null, readable |-> FALSE]

\* a request slot: path, auth, sid, body, name and args are the inbound
\* request; status and json the HTTP answer written by the Express handler
\* itself; rpc the outcome of the CallTool handler; ups the upstream requests
\* issued and resp the upstream answer
Idle ==
  [phase |-> "idle", method |-> "", path |-> "", auth |-> Undef, sid |-> Undef, body |-> Undef,
   name |-> "", args |-> Undef, tid |-> 0, token |-> Null, status |-> 0,
   json |-> Undef, rpc |-> NoRpc, ups |-> <<>>, resp |-> NoResponse]

\* res.status(401).json({ error: 'Unauthorized - Bearer token required' })
UnauthorizedBody == Obj(<<Member("error", Str("Unauthorized - Bearer token required"))>>)

\* the body of the 400 answer of the /sse handler
BadRequestBody ==
  Obj(<<Member("jsonrpc", Str("2.0")),
        Member("error",
               Obj(<<Member("code", Num(-32000)),
                     Member("message", Str("Bad Request: No valid session ID provided"))>>)),
        Member("id", Null)>>)

\* the body of the 500 answer of the catch of the /sse handler
ServerErrorBody(message) ==
  Obj(<<Member("error", Str("Internal server error")), Member("details", Str(message))>>)

\* const port = process.env.PORT || 8000: the image sets PORT=8000
Port(l) == IF l.docker THEN Str("8000") ELSE Num(8000)

\* the body of GET /health, of index.js and of the HTTPS variant (with the
\* defaults of DOMAIN, HTTPS_PORT and USE_SELF_SIGNED)
HealthBody(l) ==
  IF l.program = "index.js"
    THEN Obj(<<Member("status", Str("ok")),
               Member("server", Str("fetchserp-mcp-server")),
               Member("version", Str("1.0.0")),
               Member("transport", Str("StreamableHTTP")),
               Member("protocol", Str("http")),
               Member("port", Port(l)),
               Member("note", Str("Use ngrok for HTTPS tunneling")),
               Member("endpoint",
                      Str("/sse - StreamableHTTP transport for Claude MCP Connector"))>>)
    ELSE Obj(<<Member("status", Str("ok")),
               Member("server", Str("fetchserp-mcp-server")),
               Member("version", Str("1.0.0")),
               Member("transport", Str("SSE")),
               Member("protocol", Str("https")),
               Member("domain", Str("mcp.fetchserp.com")),
               Member("port", Num(8000)),
               Member("ssl", Str("Let's Encrypt")),
               Member("endpoint",
                      Str("/sse (GET) - SSE transport for Claude MCP Connector"))>>)

\* the body of GET /: the name, the version and the protocol of the server
\* (the descriptive members are left out)
RootBody(l) ==
  Obj(<<Member("name", Str("FetchSERP MCP Server")),
        Member("version", Str("1.0.0")),
        Member("protocol", Str(IF l.program = "index.js" THEN "http" ELSE "https"))>>)

\* a JSON-RPC message with the given method
Message(method) == Obj(<<Member("method", Str(method))>>)

\* isInitializeRequest(body)
isInitializeRequest(body) ==
  IF body.t = "arr"
    THEN \E i \in DOMAIN body.a : Get(body.a[i], "method") = Str("initialize")
    ELSE body.t = "obj" /\ Get(body, "method") = Str("initialize")

\* a tools/call message is in the body
HasToolCall(body) ==
  IF body.t = "arr"
    THEN \E i \in DOMAIN body.a : Get(body.a[i], "method") = Str("tools/call")
    ELSE body.t = "obj" /\ Get(body, "method") = Str("tools/call")

\* a check that only looks for the presence of the header
UnauthorizedIfAbsent(authHeader) == ~Truthy(authHeader)

\* !authHeader || !authHeader.startsWith('Bearer ')
Unauthorized(authHeader) ==
  \/ ~Truthy(authHeader)
  \/ Len(authHeader.s) < 7
  \/ SubSeq(authHeader.s, 1, 7) # "Bearer "

\* authHeader.substring(7)
BearerToken(authHeader) == Str(SubSeq(authHeader.s, 8, Len(authHeader.s)))

\* names every object inherits from Object.prototype
InheritedKeys == {"constructor"}

\* transports[sessionId] on the plain object transports: 0 is undefined,
\* -1 a member inherited from Object.prototype
Lookup(map, sessionId) ==
  IF sessionId \in DOMAIN map THEN map[sessionId]
  ELSE IF sessionId \in InheritedKeys THEN -1
  ELSE 0

\* a store that replaces the map by the new entry alone
StoreAlone(map, sessionId, transport) == (sessionId :> transport)

\* transports[transport.sessionId] = transport
Store(map, sessionId, transport) ==
  [k \in DOMAIN map \cup {sessionId} |->
     IF k = sessionId THEN transport ELSE map[k]]


(***************************************************************************)
(* Inputs.                                                                 *)
(***************************************************************************)
AuthHeaders == {Undef, Str("Basic A"), Str("Bearer A"), Str("Bearer B")}
SessionIds == {"s1", "s2"}
SessionHeaders == {Undef} \cup {Str(id) : id \in SessionIds \cup InheritedKeys}
Bodies == {Message("initialize"), Message("tools/call"), Message("tools/list")}
UnlistedNames == {"no_such_tool"}
FewNames == {"get_user_info"}
AllNames == ListedNames \cup UnlistedNames

JsonBody == Obj(<<Member("k", Lit(3, ""))>>)
FewResponses ==
  {Response(200, "OK", JsonBody, TRUE),
   Response(500, "Internal Server Error", Garbage("oops"), TRUE)}
\* the tool names a body can carry
NamesIn(body, names) == IF HasToolCall(body) THEN names ELSE {""}

\* Slot bookkeeping: a slot holds a request in flight; the record of a
\* finished request stays visible until the next arrival or completion.
Free(r) == reqs[r].phase \in {"idle", "done"}
FirstFree(r) == Free(r) /\ \A s \in Slots : s < r => ~Free(s)
Put(r, q) ==
  [s \in Slots |-> IF s = r THEN q
                   ELSE IF reqs[s].phase = "done" THEN Idle
                   ELSE reqs[s]]

\* the part of the CallTool handler up to the first await: it reads
\* currentToken, runs handleToolCall and makeRequest up to fetch
HandlerStart(q, token, env) ==
  LET d == handleToolCall(q.name, q.args)
      m == makeRequest(d.endpoint, d.method, d.params, d.body, token, env)
  IN IF d.kind = "raise"
       THEN [q EXCEPT !.phase = "done", !.token = token, !.status = 200,
                      !.rpc = ToolError(CatchError(d.error))]
     ELSE IF m.error.kind = "throw"
       THEN [q EXCEPT !.phase = "done", !.token = token, !.status = 200,
                      !.rpc = ToolError(CatchError(m.error))]
     ELSE [q EXCEPT !.phase = "fetching", !.token = token,
                    !.ups = Append(q.ups, m.request)]

\* a handler that asks the upstream a second time after a failed answer
HandlerFinishRetry(q, response) ==
  [q EXCEPT !.phase = "done", !.status = 200, !.resp = response,
            !.ups = IF response.kind = "response" /\ response.status >= 200
                       /\ response.status <= 299
                      THEN q.ups ELSE Append(q.ups, q.ups[1]),
            !.rpc = CallToolOutcome(makeRequestResult(response))]

\* the rest of the handler once fetch has settled with response
HandlerFinish(q, response) ==
  [q EXCEPT !.phase = "done", !.status = 200, !.resp = response,
            !.rpc = CallToolOutcome(makeRequestResult(response))]

(***************************************************************************)
(* Actions of the HTTP mode of index.js (run, app.all('/sse')).            *)
(***************************************************************************)
NewTid == Cardinality(DOMAIN sessionOf) + 1

\* the synchronous prefix of the /sse handler, up to its first await
SseRequest(r) ==
  /\ mode = "http"
  /\ FirstFree(r)
  /\ \E auth \in AuthHeaders, sid \in SessionHeaders, body \in Bodies :
     \E name \in NamesIn(body, FewNames) :
       LET q == [Idle EXCEPT !.path = "/sse", !.auth = auth, !.sid = sid,
                             !.body = body, !.name = name]
           found == IF Truthy(sid) THEN Lookup(transports, sid.s) ELSE 0
       IN IF Unauthorized(auth)
            THEN /\ reqs' = Put(r, [q EXCEPT !.phase = "done", !.status = 401,
                                              !.json = UnauthorizedBody])
                 /\ UNCHANGED <<currentToken, sessionOf, connected>>
          ELSE /\ currentToken' = BearerToken(auth)
               /\ IF found > 0
                    THEN /\ reqs' = Put(r, [q EXCEPT !.phase = "handling", !.tid = found])
                         /\ UNCHANGED <<sessionOf, connected>>
                  ELSE IF found < 0
                    THEN \* transport.handleRequest is not a function: catch, 500
                         /\ reqs' = Put(r, [q EXCEPT !.phase = "done", !.status = 500,
                                                      !.json = ServerErrorBody(
                                                        "transport.handleRequest is not a function")])
                         /\ UNCHANGED <<sessionOf, connected>>
                  ELSE IF ~Truthy(sid) /\ isInitializeRequest(body)
                    THEN /\ NewTid <= MaxTransports
                         /\ sessionOf' = sessionOf @@ (NewTid :> "")
                         /\ connected' = NewTid
                         /\ reqs' = Put(r, [q EXCEPT !.phase = "connecting", !.tid = NewTid])
                  ELSE /\ reqs' = Put(r, [q EXCEPT !.phase = "done", !.status = 400,
                                                    !.json = BadRequestBody])
                       /\ UNCHANGED <<sessionOf, connected>>
  /\ UNCHANGED <<certs, client, launch, mode, envToken, transports>>

\* await transport.handleRequest(req, res, req.body) of the new-session
\* branch: the transport answers the initialize request, generating its
\* session id, or refuses the request and stays without one
SseInitHandle(r) ==
  /\ mode = "http"
  /\ reqs[r].phase = "connecting"
  /\ \E id \in SessionIds \cup {""} :
       /\ sessionOf' = [sessionOf EXCEPT ![reqs[r].tid] = id]
       /\ reqs' = [reqs EXCEPT ![r].phase = "storing",
                               ![r].status = IF id = "" THEN 400 ELSE 200]
  /\ UNCHANGED <<certs, client, launch, mode, envToken, currentToken, transports, connected>>

\* if (transport.sessionId) transports[transport.sessionId] = transport
SseInitStore(r) ==
  /\ mode = "http"
  /\ reqs[r].phase = "storing"
  /\ transports' = IF sessionOf[reqs[r].tid] # ""
                     THEN Store(transports, sessionOf[reqs[r].tid], reqs[r].tid)
                     ELSE transports
  /\ reqs' = Put(r, [reqs[r] EXCEPT !.phase = "done"])
  /\ UNCHANGED <<certs, client, launch, mode, envToken, currentToken, sessionOf, connected>>

\* a tools/list message is in the body
HasToolList(body) ==
  IF body.t = "arr"
    THEN \E i \in DOMAIN body.a : Get(body.a[i], "method") = Str("tools/list")
    ELSE body.t = "obj" /\ Get(body, "method") = Str("tools/list")

\* a list handler that shows the tools only when a token is available
ListToolsResultIfToken ==
  [kind |-> "tools",
   content |-> IF Truthy(currentToken) \/ Truthy(envToken) THEN ToolCatalog ELSE <<>>,
   error |-> NoError]

\* the ListTools handler: return { tools: [...] }
ListToolsResult == [kind |-> "tools", content |-> ToolCatalog, error |-> NoError]

\* the transport hands the message of a request to the server: a tools/call
\* runs the CallTool handler, a tools/list the ListTools handler, any other
\* message is answered by the SDK
Dispatch(r) ==
  /\ reqs[r].phase = "handling"
  /\ reqs' = Put(r, IF HasToolCall(reqs[r].body)
                        THEN HandlerStart(reqs[r], currentToken, envToken)
                      ELSE IF HasToolList(reqs[r].body)
                        THEN [reqs[r] EXCEPT !.phase = "done", !.status = 200,
                                             !.rpc = ListToolsResult]
                      ELSE [reqs[r] EXCEPT !.phase = "done", !.status = 200])
  /\ UNCHANGED <<certs, client, launch, mode, envToken, currentToken, transports, sessionOf, connected>>

\* fetch settles: the upstream answers or the request fails
FetchSettle(r, responses) ==
  /\ reqs[r].phase = "fetching"
  /\ \E response \in responses : reqs' = Put(r, HandlerFinish(reqs[r], response))
  /\ UNCHANGED <<certs, client, launch, mode, envToken, currentToken, transports, sessionOf, connected>>

FetchSettleFew(r) == FetchSettle(r, FewResponses)

(***************************************************************************)
(* Actions of the HTTPS mode of part_001 (run, app.all('/sse')): every     *)
(* authorized request gets a transport of its own.                         *)
(***************************************************************************)
HttpsSseRequest(r) ==
  /\ mode = "https"
  /\ FirstFree(r)
  /\ \E auth \in AuthHeaders, sid \in SessionHeaders, body \in Bodies :
     \E name \in NamesIn(body, FewNames) :
       LET q == [Idle EXCEPT !.path = "/sse", !.auth = auth, !.sid = sid,
                             !.body = body, !.name = name]
       IN IF Unauthorized(auth)
            THEN /\ reqs' = Put(r, [q EXCEPT !.phase = "done", !.status = 401,
                                              !.json = UnauthorizedBody])
                 /\ UNCHANGED <<currentToken, sessionOf, connected>>
          ELSE /\ NewTid <= MaxTransports
               /\ currentToken' = BearerToken(auth)
               /\ sessionOf' = sessionOf @@ (NewTid :> "")
               /\ connected' = NewTid
               /\ reqs' = Put(r, [q EXCEPT !.phase = "connecting", !.tid = NewTid])
  /\ UNCHANGED <<certs, client, launch, mode, envToken, transports>>

\* await transport.handleRequest(req, res) on the fresh transport: it answers
\* an initialize request with a new session id and refuses anything else
HttpsHandle(r) ==
  /\ mode = "https"
  /\ reqs[r].phase = "connecting"
  /\ IF isInitializeRequest(reqs[r].body)
       THEN \E id \in SessionIds :
              /\ sessionOf' = [sessionOf EXCEPT ![reqs[r].tid] = id]
              /\ reqs' = Put(r, [reqs[r] EXCEPT !.phase = "done", !.status = 200])
       ELSE /\ reqs' = Put(r, [reqs[r] EXCEPT !.phase = "done", !.status = 400])
            /\ UNCHANGED sessionOf
  /\ UNCHANGED <<certs, client, launch, mode, envToken, currentToken, transports, connected>>

(***************************************************************************)
(* GET /health and GET / of the HTTP mode and of the HTTPS variant: the    *)
(* handlers answer at once and read no header.                             *)
(***************************************************************************)
InfoPaths == {"/health", "/"}
InfoAuthHeaders == {Undef, Str("Bearer B")}

\* info handlers behind the check of the Authorization header
InfoRequestChecked(r) ==
  /\ mode \in {"http", "https"}
  /\ FirstFree(r)
  /\ \E path \in InfoPaths, auth \in InfoAuthHeaders :
       reqs' = Put(r, IF Unauthorized(auth)
                        THEN [Idle EXCEPT !.phase = "done", !.path = path, !.auth = auth,
                                          !.status = 401, !.json = UnauthorizedBody]
                        ELSE [Idle EXCEPT !.phase = "done", !.path = path, !.auth = auth,
                                          !.status = 200,
                                          !.json = IF path = "/health" THEN HealthBody(launch)
                                                   ELSE RootBody(launch)])
  /\ UNCHANGED <<certs, client, launch, mode, envToken, currentToken, transports, sessionOf, connected>>

InfoRequest(r) ==
  /\ mode \in {"http", "https"}
  /\ FirstFree(r)
  /\ \E path \in InfoPaths, auth \in InfoAuthHeaders :
       reqs' = Put(r, [Idle EXCEPT !.phase = "done", !.path = path, !.auth = auth,
                                   !.status = 200,
                                   !.json = IF path = "/health" THEN HealthBody(launch)
                                            ELSE RootBody(launch)])
  /\ UNCHANGED <<certs, client, launch, mode, envToken, currentToken, transports, sessionOf, connected>>

(***************************************************************************)
(* Stdio mode: run connects one StdioServerTransport; messages arrive on   *)
(* stdin and reach the handlers.                                           *)
(***************************************************************************)
StdioMessage(r) ==
  /\ mode = "stdio"
  /\ FirstFree(r)
  /\ \E body \in Bodies \ {Undef} : \E name \in NamesIn(body, FewNames) :
       reqs' = Put(r, [Idle EXCEPT !.phase = "handling", !.body = body, !.tid = connected,
                                   !.name = name])
  /\ UNCHANGED <<certs, client, launch, mode, envToken, currentToken, transports, sessionOf, connected>>

EnvTokens == {Undef, Str("E")}

(***************************************************************************)
(* Start-up.  A launch names the program, whether it runs in the published *)
(* image, and the variables passed to it.  The image sets MCP_HTTP_MODE    *)
(* and runs index.js; run selects the mode from the process environment.   *)
(***************************************************************************)
EnvNames == {"MCP_HTTP_MODE", "MCP_HTTPS_MODE", "FETCHSERP_API_TOKEN"}

Passed(httpMode, httpsMode, token) ==
  [MCP_HTTP_MODE |-> httpMode, MCP_HTTPS_MODE |-> httpsMode, FETCHSERP_API_TOKEN |-> token]

Launch(docker, program, passed) ==
  [docker |-> docker, program |-> program, passed |-> passed]

\* the ENV lines of the Dockerfile that run reads
DockerfileEnv == Passed(Str("true"), Undef, Undef)

\* process.env: a variable passed at the start overrides the image's
ProcessEnv(l) ==
  [v \in EnvNames |->
     IF l.passed[v] # Undef THEN l.passed[v]
     ELSE IF l.docker THEN DockerfileEnv[v]
     ELSE Undef]

\* const useHttp = process.env.MCP_HTTP_MODE === 'true' (index.js),
\* const useHttps = process.env.MCP_HTTPS_MODE === 'true' (HTTPS variant);
\* the env-token variant reads MCP_HTTP_MODE as well and its run throws
\* before it listens when FETCHSERP_API_TOKEN is falsy
RunMode(l) ==
  CASE l.program = "index.js" ->
         IF ProcessEnv(l)["MCP_HTTP_MODE"] = Str("true") THEN "http" ELSE "stdio"
    [] l.program = "part_001" ->
         IF ProcessEnv(l)["MCP_HTTPS_MODE"] = Str("true") THEN "https" ELSE "stdio"
    [] OTHER ->
         IF ProcessEnv(l)["MCP_HTTP_MODE"] # Str("true") THEN "stdio"
         ELSE IF Truthy(ProcessEnv(l)["FETCHSERP_API_TOKEN"]) THEN "mcp"
         ELSE "failed"

\* node index.js with MCP_HTTP_MODE unset or 'true', and the HTTPS variant
\* with MCP_HTTPS_MODE 'true'
NodeLaunches ==
  {Launch(FALSE, "index.js", Passed(m, Undef, t)) : m \in {Undef, Str("true")}, t \in EnvTokens}
  \cup {Launch(FALSE, "part_001", Passed(Undef, Str("true"), t)) : t \in EnvTokens}

\* docker run of the image: with the token alone (the Claude Desktop
\* configuration of the guide), or with MCP_HTTP_MODE=false passed as well
DockerLaunches ==
  {Launch(TRUE, "index.js", Passed(m, Undef, Str("E"))) : m \in {Undef, Str("false")}}

\* the example client before it calls httpRequest
NoUrl == [protocol |-> "", hostname |-> "", port |-> "", pathname |-> "", search |-> ""]
NoOptions ==
  [hostname |-> "", port |-> "", path |-> "", method |-> "", rejectUnauthorized |-> TRUE,
   timeout |-> 0, protocol |-> "", written |-> Undef]
Pending == [state |-> "pending", statusCode |-> 0, headers |-> <<>>, data |-> "", error |-> ""]
ClientIdle ==
  [pc |-> "idle", request |-> NoOptions, statusCode |-> 0, headers |-> <<>>,
   responseData |-> "", promise |-> Pending]

\* ./certs with what it holds (subject is the CN of cert.pem), the runs of
\* openssl, the certificates generated and what the last call of
\* createSelfSignedCerts gave
CertState(dir, key, cert, subject, calls, execs, generated, result) ==
  [dir |-> dir, key |-> key, cert |-> cert, subject |-> subject, calls |-> calls,
   execs |-> execs, generated |-> generated, result |-> result]
NoPaths == [kind |-> "none", keyFile |-> "", certFile |-> ""]
NoCerts == CertState(FALSE, FALSE, FALSE, "", 0, 0, 0, NoPaths)

\* the state after the constructor and run
AfterRun(l) ==
  /\ certs = NoCerts
  /\ client = ClientIdle
  /\ launch = l
  /\ mode = RunMode(l)
  /\ envToken = ProcessEnv(l)["FETCHSERP_API_TOKEN"]
  /\ currentToken = Null
  /\ transports = <<>>
  /\ sessionOf = IF mode = "stdio" THEN (1 :> "") ELSE <<>>
  /\ connected = IF mode = "stdio" THEN 1 ELSE 0
  /\ reqs = [r \in Slots |-> Idle]

Init == \E l \in NodeLaunches : AfterRun(l)

Next ==
  \/ \E r \in Slots : SseRequest(r)
  \/ \E r \in Slots : SseInitHandle(r)
  \/ \E r \in Slots : SseInitStore(r)
  \/ \E r \in Slots : Dispatch(r)
  \/ \E r \in Slots : FetchSettleFew(r)
  \/ \E r \in Slots : HttpsSseRequest(r)
  \/ \E r \in Slots : HttpsHandle(r)
  \/ \E r \in Slots : InfoRequest(r)
  \/ \E r \in Slots : StdioMessage(r)

Spec == Init /\ [][Next]_vars

(***************************************************************************)
(* The server started in the published image.                              *)
(***************************************************************************)
InitDocker == \E l \in DockerLaunches : AfterRun(l)

NextDocker ==
  \/ \E r \in Slots : SseRequest(r)
  \/ \E r \in Slots : SseInitHandle(r)
  \/ \E r \in Slots : SseInitStore(r)
  \/ \E r \in Slots : Dispatch(r)
  \/ \E r \in Slots : FetchSettleFew(r)
  \/ \E r \in Slots : StdioMessage(r)

SpecDocker == InitDocker /\ [][NextDocker]_vars

(***************************************************************************)
(* httpRequest of the example client (simple-claude-mcp-example.js): one   *)
(* call, from the creation of the request to the events that Node's http   *)
(* client delivers for it.  The promise is settled by the first call of    *)
(* resolve or reject; later calls have no effect.                          *)
(***************************************************************************)
\* new URL(url), as the record of its parts (port is '' for the default)
Url(protocol, hostname, port, pathname, search) ==
  [protocol |-> protocol, hostname |-> hostname, port |-> port,
   pathname |-> pathname, search |-> search]

Urls ==
  {Url("https:", "api.anthropic.com", "", "/v1/messages", ""),
   Url("https:", "mcp.fetchserp.com", "8000", "/sse", ""),
   Url("http:", "localhost", "8000", "/health", "?v=1")}

MethodOptions == {Undef, Str("GET")}
DataArguments == {Undef, Str("{}")}
Chunks == {"a", "b"}
StatusCodes == {200, 401}
HeaderSets == {<<>>, <<Member("content-type", Str("application/json"))>>}

\* requestOptions and the data written to the request
RequestOptions(urlObj, method, data) ==
  [hostname |-> urlObj.hostname,
   port |-> IF urlObj.port # "" THEN urlObj.port
            ELSE IF urlObj.protocol = "https:" THEN "443" ELSE "80",
   path |-> urlObj.pathname \o urlObj.search,
   method |-> IF Truthy(method) THEN method.s ELSE "POST",
   rejectUnauthorized |-> ~(urlObj.hostname = "localhost" \/ urlObj.hostname = "mcp.fetchserp.com"),
   timeout |-> 30000,
   protocol |-> urlObj.protocol,
   written |-> IF Truthy(data) THEN data ELSE Undef]

\* resolve(value) and reject(error) settle a pending promise only
Resolve(promise, statusCode, headers, data) ==
  IF promise.state # "pending" THEN promise
  ELSE [state |-> "fulfilled", statusCode |-> statusCode, headers |-> headers,
        data |-> data, error |-> ""]

RejectPromise(promise, error) ==
  IF promise.state # "pending" THEN promise
  ELSE [state |-> "rejected", statusCode |-> 0, headers |-> <<>>, data |-> "", error |-> error]

ServerVarsUnchanged ==
  UNCHANGED <<certs, launch, mode, envToken, currentToken, transports, sessionOf, connected, reqs>>

\* httpRequest(url, options, data) up to req.end()
HttpRequestCall ==
  /\ client.pc = "idle"
  /\ \E urlObj \in Urls, method \in MethodOptions, data \in DataArguments :
       client' = [client EXCEPT !.pc = "connecting",
                                !.request = RequestOptions(urlObj, method, data)]
  /\ ServerVarsUnchanged

\* the 'response' callback: the status line and the headers have arrived
OnResponse ==
  /\ client.pc = "connecting"
  /\ \E statusCode \in StatusCodes, headers \in HeaderSets :
       client' = [client EXCEPT !.pc = "receiving", !.statusCode = statusCode,
                                !.headers = headers]
  /\ ServerVarsUnchanged

\* res.on('data'): responseData += chunk
OnData ==
  /\ client.pc = "receiving"
  /\ Len(client.responseData) < MaxChunks
  /\ \E chunk \in Chunks :
       client' = [client EXCEPT !.responseData = client.responseData \o chunk]
  /\ ServerVarsUnchanged

\* res.on('end'): resolve({ statusCode, headers, data })
OnEnd ==
  /\ client.pc = "receiving"
  /\ client' = [client EXCEPT !.pc = "ended",
                              !.promise = Resolve(client.promise, client.statusCode,
                                                  client.headers, client.responseData)]
  /\ ServerVarsUnchanged

\* req.on('error') before any response: the connection fails
OnError ==
  /\ client.pc = "connecting"
  /\ client' = [client EXCEPT !.pc = "closed",
                              !.promise = RejectPromise(client.promise, "ECONNREFUSED")]
  /\ ServerVarsUnchanged

\* the connection closes after the response has begun and before its end:
\* Node emits 'aborted' and 'error' on res and 'close' on req, none of which
\* has a listener here
OnAborted ==
  /\ client.pc = "receiving"
  /\ client' = [client EXCEPT !.pc = "closed"]
  /\ ServerVarsUnchanged

\* req.on('timeout'): the socket has been idle for the timeout;
\* req.destroy(), reject(new Error('Request timeout after 30 seconds')).
\* Destroying a request that has no response yet makes it emit 'error'
\* (socket hang up) afterwards.
OnTimeout ==
  /\ client.pc \in {"connecting", "receiving"}
  /\ client' = [client EXCEPT !.pc = IF client.pc = "connecting" THEN "hangup" ELSE "closed",
                              !.promise = RejectPromise(client.promise,
                                                  "Request timeout after 30 seconds")]
  /\ ServerVarsUnchanged

\* req.on('error') after req.destroy(): reject(error) once more
OnHangUp ==
  /\ client.pc = "hangup"
  /\ client' = [client EXCEPT !.pc = "closed",
                              !.promise = RejectPromise(client.promise, "socket hang up")]
  /\ ServerVarsUnchanged

InitClient == AfterRun(Launch(FALSE, "index.js", Passed(Undef, Undef, Str("E"))))

NextClient ==
  \/ HttpRequestCall
  \/ OnResponse
  \/ OnData
  \/ OnEnd
  \/ OnError
  \/ OnAborted
  \/ OnTimeout
  \/ OnHangUp

\* Node delivers the events of a request in flight: a request that can
\* still receive an event receives one
SpecClient == InitClient /\ [][NextClient]_vars /\ WF_vars(NextClient)

(***************************************************************************)
(* One tool call, from the handler's invocation to its outcome, for every  *)
(* tool name and a bounded set of argument objects.  The call starts in a  *)
(* state the server reaches: stdio mode with currentToken null, or HTTP    *)
(* mode with a stored session and the token of an earlier /sse request     *)
(* (the empty string after the header 'Bearer ').                          *)
(***************************************************************************)
ArgKeys(name) == DeclaredProps(name) \cup {"extra"}

\* strings a caller can pass as uuid that are not one path segment
OddUuids == {"../user", "a/b", "x?country=y", "x#f", ".."}

\* the values tried under a key: one of the declared type, null, and one of
\* another type; for an integer also one beyond every declared maximum
ArgValues(key) ==
  {Null} \cup
  (IF key = "extra" THEN {Str("v"), Arr(<<Str("x"), Str("y")>>)}
   ELSE IF PropType(key) = "num" THEN {Num(3), Num(501), Str("v")}
   ELSE IF PropType(key) = "arr" THEN {Arr(<<Str("x"), Str("y")>>), Str("v")}
   ELSE IF key = "uuid" THEN {Str("v"), Num(3)} \cup {Str(u) : u \in OddUuids}
   ELSE {Str("v"), Num(3)})

RECURSIVE ArgMembers(_, _)
\* the member lists of at most n arguments with distinct keys
ArgMembers(keys, n) ==
  IF n = 0 THEN {<<>>}
  ELSE {<<>>} \cup
       UNION {{<<Member(k, v)>> \o rest :
                  v \in ArgValues(k), rest \in ArgMembers(keys \ {k}, n - 1)} :
                k \in keys}

RECURSIVE MemberSeqs(_, _, _)
\* the member lists of at most n members with distinct keys
MemberSeqs(keys, values, n) ==
  IF n = 0 THEN {<<>>}
  ELSE {<<>>} \cup
       UNION {{<<Member(k, v)>> \o rest : rest \in MemberSeqs(keys \ {k}, values, n - 1)} :
                k \in keys, v \in values}

ArgsFor(name) == {Undef} \cup {Obj(ms) : ms \in ArgMembers(ArgKeys(name), MaxArgs)}

CallSlot(auth, sid, name, args) ==
  [Idle EXCEPT !.phase = "handling", !.path = IF auth = Undef THEN "" ELSE "/sse",
               !.auth = auth, !.sid = sid,
               !.body = Message("tools/call"), !.name = name, !.args = args, !.tid = 1]

InitServing(names) ==
  /\ certs = NoCerts
  /\ client = ClientIdle
  /\ launch \in NodeLaunches
  /\ mode = RunMode(launch)
  /\ mode \in {"stdio", "http"}
  /\ envToken = ProcessEnv(launch)["FETCHSERP_API_TOKEN"]
  /\ currentToken \in IF mode = "stdio" THEN {Null} ELSE {Str(""), Str("A")}
  /\ transports = IF mode = "stdio" THEN <<>> ELSE ("s1" :> 1)
  /\ sessionOf = (1 :> IF mode = "stdio" THEN "" ELSE "s1")
  /\ connected = 1
  /\ \E name \in names : \E args \in ArgsFor(name) :
       reqs = [r \in Slots |->
                 IF r > 1 THEN Idle
                 ELSE IF mode = "stdio" THEN CallSlot(Undef, Undef, name, args)
                 ELSE CallSlot(Str("Bearer " \o currentToken.s), Str("s1"), name, args)]

InitCall == InitServing(AllNames)

\* the upstream answers of a call: the two of FetchSettleFew, a network
\* failure and a 2xx answer that is not JSON
CallResponses == FewResponses \cup {Reject, Response(200, "OK", Garbage("oops"), TRUE)}

FetchSettleCall(r) == FetchSettle(r, CallResponses)

NextCall ==
  \/ \E r \in Slots : Dispatch(r)
  \/ \E r \in Slots : FetchSettleCall(r)

SpecCall == InitCall /\ [][NextCall]_vars


(***************************************************************************)
(* One tool call against every upstream answer of a bounded set: fetch     *)
(* fails, or the upstream answers with a status line and a body that is a  *)
(* JSON text of bounded size or is not JSON, and is read whole or not.     *)
(***************************************************************************)
RECURSIVE SeqsUpTo(_, _)
SeqsUpTo(S, n) ==
  IF n = 0 THEN {<<>>}
  ELSE {<<>>} \cup UNION {{<<x>> \o rest : rest \in SeqsUpTo(S, n - 1)} : x \in S}

Scalars == {Null, Str("t"), Lit(3, ""), Lit(1, ExpBig)}
Arrays == {Arr(a) : a \in SeqsUpTo(Scalars, MaxElems)}
Objects == {Obj(ms) : ms \in MemberSeqs({"k", "m"}, Scalars \cup Arrays, MaxElems)}
Docs == Scalars \cup Arrays \cup Objects \cup {Garbage("oops"), Garbage("")}

Statuses == {200, 299, 300, 404, 500}
StatusText(status) ==
  CASE status = 200 -> "OK"
    [] status = 404 -> "Not Found"
    [] status = 500 -> "Internal Server Error"
    [] OTHER -> ""

AnyResponses ==
  {Reject} \cup
  {Response(status, StatusText(status), body, readable) :
     status \in Statuses, body \in Docs, readable \in BOOLEAN}

FetchSettleAny(r) == FetchSettle(r, AnyResponses)

InitRelay ==
  /\ InitServing({"get_user_info"})
  /\ envToken = Str("E")
  /\ reqs[1].args = Undef

NextRelay ==
  \/ \E r \in Slots : Dispatch(r)
  \/ \E r \in Slots : FetchSettleAny(r)

SpecRelay == InitRelay /\ [][NextRelay]_vars

(***************************************************************************)
(* Properties.                                                             *)
(***************************************************************************)
\* the arguments satisfy the tool's declared input schema
ValidArgs(name, args) ==
  IF args.t = "undef" THEN RequiredProps(name) = {}
  ELSE /\ RequiredProps(name) \subseteq Keys(args)
       /\ \A i \in DOMAIN args.o :
            args.o[i].k \in DeclaredProps(name)
              => /\ args.o[i].v.t = PropType(args.o[i].k)
                 /\ args.o[i].v.t = "num" => InBounds(name, args.o[i].k, args.o[i].v.n)

Started(q) == q.phase \in {"fetching", "done"}

\* the uuid of a call of get_serp_js_result is one path segment: it has no
\* '/', '?' or '#' and is neither '.' nor '..' (vacuous for the other tools)
PlainUuid(q) ==
  q.name = "get_serp_js_result"
    => LET u == JSString(Get(q.args, "uuid"))
       IN /\ IndexFrom(u, "/", 1) = 0
          /\ IndexFrom(u, "?", 1) = 0
          /\ IndexFrom(u, "#", 1) = 0
          /\ u \notin {".", ".."}

InQuery(request, key, v) ==
  LET sp == request.url.searchParams
  IN IF v.t = "arr"
       THEN \A i \in DOMAIN v.a : \E j \in DOMAIN sp : sp[j] = Member(key \o "[]", JSString(v.a[i]))
       ELSE \E j \in DOMAIN sp : sp[j] = Member(key, JSString(v))

\* the value v supplied under key is a member of the JSON body of request
InBody(request, key, v) ==
  /\ request.body.t = "obj"
  /\ \E j \in DOMAIN request.body.o : request.body.o[j] = Member(key, JSONstringify(v))

\* the uuid of get_serp_js_result is the last segment of the path
InPath(request, name, key, v) ==
  /\ name = "get_serp_js_result"
  /\ key = "uuid"
  /\ request.url.pathname = "/api/v1/serp_js/" \o JSString(v)

\* C2: every argument supplied with a non-null value under a declared name
\* is carried in the upstream request, in the query string or the JSON body
\* (the uuid of get_serp_js_result in the path).
C2_EveryArgumentCarried ==
  \A r \in Slots :
    LET q == reqs[r]
    IN (q.name \in ListedNames /\ q.args.t = "obj" /\ Len(q.ups) > 0)
       => \A i \in DOMAIN q.args.o :
            LET key == q.args.o[i].k
                v == q.args.o[i].v
            IN (key \in DeclaredProps(q.name) /\ v.t \notin {"null", "undef"})
               => \/ InQuery(q.ups[1], key, v)
                  \/ InBody(q.ups[1], key, v)
                  \/ InPath(q.ups[1], q.name, key, v)

\* no number literal of the JSON text w is beyond the range of a double
RECURSIVE InRange(_)
InRange(w) ==
  CASE w.t = "lit" -> w.s = ""
    [] w.t = "arr" -> \A i \in DOMAIN w.a : InRange(w.a[i])
    [] w.t = "obj" -> \A i \in DOMAIN w.o : InRange(w.o[i].v)
    [] OTHER -> TRUE

\* the upstream answered 2xx with a body that is a JSON text, read whole
AnsweredJson(q) ==
  /\ q.phase = "done"
  /\ q.resp.kind = "response"
  /\ q.resp.status >= 200 /\ q.resp.status <= 299
  /\ q.resp.readable
  /\ q.resp.body.t # "garbage"

\* the call succeeded with one text item whose text is the JSON text w
RelayedAs(q, w) ==
  /\ q.rpc.kind = "result"
  /\ Len(q.rpc.content) = 1
  /\ q.rpc.content[1].type = "text"
  /\ q.rpc.content[1].text = w

Contains(message, s) == \E i \in DOMAIN message : message[i] = s

C9_UnknownTool ==
  \A r \in Slots :
    LET q == reqs[r]
    IN (HasToolCall(q.body) /\ q.name \notin ListedNames /\ q.phase # "handling")
       => /\ q.phase = "done"
          /\ q.rpc.kind = "error"
          /\ q.rpc.error.code = "MethodNotFound"
          /\ q.ups = <<>>

\* an unknown name has been called with arguments while no token is available
C9_Witness ==
  \E r \in Slots :
    /\ reqs[r].phase = "done"
    /\ reqs[r].name = "no_such_tool"
    /\ reqs[r].args.t = "obj" /\ Len(reqs[r].args.o) = 1
    /\ ~Truthy(currentToken) /\ ~Truthy(envToken)
    /\ reqs[r].rpc.error.code = "MethodNotFound"

\* the names of the list and the labels of the switch
NamesAgree ==
  /\ \A i, j \in DOMAIN ToolCatalog : i # j => ToolCatalog[i].name # ToolCatalog[j].name
  /\ \A i \in DOMAIN CaseNames : CaseNames[i] \in ListedNames
  /\ \A n \in ListedNames :
       /\ Cardinality({i \in DOMAIN CaseNames : CaseNames[i] = n}) = 1
       /\ CasePath(n) # ""
       /\ CaseMethod(n) \in {"GET", "POST"}

\* C10: the listed names are pairwise distinct, every listed name has a case
\* with one path and one method that every call of it uses (the uuid
\* appended as a path segment for get_serp_js_result), and no case is for an
\* unlisted name.
C10_CatalogMatchesDispatcher ==
  /\ NamesAgree
  /\ \A r \in Slots :
       LET q == reqs[r]
       IN (Started(q) /\ q.name \in ListedNames /\ q.args.t = "obj"
           /\ (Truthy(currentToken) \/ Truthy(envToken)))
          => /\ Len(q.ups) = 1
             /\ q.ups[1].method = CaseMethod(q.name)
             /\ PlainUuid(q)
                  => q.ups[1].url.pathname =
                       CasePath(q.name) \o (IF q.name = "get_serp_js_result"
                                              THEN JSString(Get(q.args, "uuid")) ELSE "")
  /\ \A r \in Slots :
       (Started(reqs[r]) /\ reqs[r].name \notin ListedNames) => reqs[r].ups = <<>>

\* a listed POST tool and the tool with the uuid have been dispatched
C10_Witness ==
  \E r \in Slots :
    /\ Started(reqs[r])
    /\ reqs[r].name = "get_serp_js_result"
    /\ Len(reqs[r].ups) = 1
    /\ reqs[r].ups[1].url.pathname = "/api/v1/serp_js/v"


\* the header is present and starts with 'Bearer '
IsBearer(h) == h.t = "str" /\ Len(h.s) >= 7 /\ SubSeq(h.s, 1, 7) = "Bearer "

\* slot r takes a new inbound request in this step
Arrives(r) ==
  /\ reqs[r].phase \in {"idle", "done"}
  /\ reqs'[r].phase # "idle"
  /\ reqs'[r] # reqs[r]

\* C4 as stated: in HTTP mode the upstream Authorization header of a tool
\* call is 'Bearer ' followed by the token of the /sse request that carried
\* the call, under every interleaving of requests.
C4_OwnToken ==
  \A r \in Slots :
    (mode = "http" /\ Len(reqs[r].ups) > 0)
      => reqs[r].ups[1].Authorization =
           "Bearer " \o SubSeq(reqs[r].auth.s, 8, Len(reqs[r].auth.s))

\* C5 as stated: a stored session id maps to the same transport in every
\* later state.
C5_BindingStable ==
  [][\A id \in DOMAIN transports :
       id \in DOMAIN transports' /\ transports'[id] = transports[id]]_vars

\* C6: no step removes a session id from the map, and an authenticated /sse
\* request bearing a stored session id is routed to the transport stored
\* under that id.
C6_SessionsKept ==
  [][/\ DOMAIN transports \subseteq DOMAIN transports'
     /\ \A r \in Slots :
          (/\ mode = "http"
           /\ Arrives(r)
           /\ IsBearer(reqs'[r].auth)
           /\ reqs'[r].sid.t = "str"
           /\ reqs'[r].sid.s \in DOMAIN transports)
          => /\ reqs'[r].phase = "handling"
             /\ reqs'[r].tid = transports[reqs'[r].sid.s]
             /\ transports' = transports]_vars

\* two sessions are stored and a request bearing the id of the second is
\* being handled by its transport
C6_Witness ==
  \E r \in Slots :
    /\ mode = "http"
    /\ DOMAIN transports = {"s1", "s2"}
    /\ reqs[r].phase = "handling"
    /\ reqs[r].sid = Str("s2")
    /\ reqs[r].tid = transports["s2"]

\* C7: a /sse request without a header that starts with 'Bearer ' is
\* answered 401 and changes nothing else: not currentToken, not the session
\* map, no transport is created or connected, nothing is sent upstream; in
\* the HTTP and in the HTTPS variant.
C7_UnauthorizedNoEffect ==
  [][\A r \in Slots :
       (/\ mode \in {"http", "https"}
        /\ Arrives(r)
        /\ reqs'[r].path = "/sse"
        /\ ~IsBearer(reqs'[r].auth))
       => /\ reqs'[r].phase = "done"
          /\ reqs'[r].status = 401
          /\ reqs'[r].tid = 0
          /\ reqs'[r].ups = <<>>
          /\ \A s \in Slots : Len(reqs'[s].ups) <= Len(reqs[s].ups)
          /\ currentToken' = currentToken
          /\ transports' = transports
          /\ sessionOf' = sessionOf
          /\ connected' = connected]_vars

\* a request bearing a stored session id but a header of another scheme has
\* been answered 401 while a token and a session are stored
C7_Witness ==
  \E r \in Slots :
    /\ mode = "http"
    /\ reqs[r].phase = "done"
    /\ reqs[r].status = 401
    /\ reqs[r].auth = Str("Basic A")
    /\ reqs[r].sid = Str("s1")
    /\ "s1" \in DOMAIN transports
    /\ currentToken = Str("A")


\* C11 as stated: a call of a listed tool whose arguments do not satisfy the
\* declared input schema (a required argument missing, an integer outside
\* its declared range) is rejected with an error and issues no upstream
\* request.
C11_InvalidArgsRejected ==
  \A r \in Slots :
    LET q == reqs[r]
    IN (Started(q) /\ q.name \in ListedNames /\ ~ValidArgs(q.name, q.args))
       => /\ q.ups = <<>>
          /\ q.phase = "done"
          /\ q.rpc.kind = "error"


\* C12 as stated: started in the published image with FETCHSERP_API_TOKEN as
\* the only variable passed, the server is in stdio mode with the stdio
\* transport connected, takes no /sse request, and every upstream request
\* carries the token of the environment.
C12_DockerGuideStdio ==
  (launch = Launch(TRUE, "index.js", Passed(Undef, Undef, Str("E"))))
    => /\ mode = "stdio"
       /\ connected = 1
       /\ \A r \in Slots :
            /\ reqs[r].auth = Undef
            /\ Len(reqs[r].ups) > 0 => reqs[r].ups[1].Authorization = "Bearer E"


\* C13: in the HTTP and the HTTPS mode a GET /health is answered 200 with a
\* JSON body whose status is 'ok', and a GET / with 200, with or without an
\* Authorization header and in whatever state it arrives; serving either
\* changes neither currentToken nor the session map nor any transport and
\* issues no upstream request.
C13_HealthNoAuthNoEffect ==
  [][\A r \in Slots :
       (Arrives(r) /\ reqs'[r].path \in {"/health", "/"})
       => /\ mode \in {"http", "https"}
          /\ reqs'[r].phase = "done"
          /\ reqs'[r].status = 200
          /\ reqs'[r].json.t = "obj"
          /\ reqs'[r].path = "/health" => Get(reqs'[r].json, "status") = Str("ok")
          /\ reqs'[r].ups = <<>>
          /\ \A s \in Slots : Len(reqs'[s].ups) <= Len(reqs[s].ups)
          /\ currentToken' = currentToken
          /\ transports' = transports
          /\ sessionOf' = sessionOf
          /\ connected' = connected]_vars

\* a GET /health without an Authorization header has been answered while a
\* session is stored, a token is current and a tool call awaits its upstream
\* answer
C13_Witness ==
  \E r, s \in Slots :
    /\ mode = "http"
    /\ reqs[r].phase = "done"
    /\ reqs[r].path = "/health"
    /\ reqs[r].auth = Undef
    /\ reqs[r].status = 200
    /\ Get(reqs[r].json, "status") = Str("ok")
    /\ reqs[s].phase = "fetching"
    /\ DOMAIN transports # {}
    /\ currentToken = Str("A")


\* C14 as stated: every call of httpRequest eventually settles, resolved at
\* the end of the response or rejected on a socket error or on the timeout;
\* its promise does not stay pending forever.
C14_EventuallySettles ==
  (client.pc # "idle") ~> (client.promise.state # "pending")


\* the token the request of slot q supplied: what follows 'Bearer ' in its
\* Authorization header, nothing for a message on stdin
Supplied(q) ==
  IF IsBearer(q.auth) THEN SubSeq(q.auth.s, 8, Len(q.auth.s)) ELSE ""

\* the call reaches makeRequest: the tool is listed and its case does not
\* fail on a missing arguments object
ReachesMakeRequest(q) ==
  /\ Started(q)
  /\ q.name \in ListedNames
  /\ q.args.t = "obj" \/ q.name \notin {"scrape_webpage_js", "scrape_webpage_js_proxy",
                                          "get_serp_js_result"}

\* C15: a call that reaches makeRequest carries the token its request
\* supplied when that is not empty, the token of the environment when the
\* request supplied none (or an empty one), and fails with InvalidRequest and
\* no upstream request when there is neither.
C15_TokenChoice ==
  \A r \in Slots :
    LET q == reqs[r]
    IN ReachesMakeRequest(q)
       => IF Supplied(q) # ""
            THEN Len(q.ups) = 1 /\ q.ups[1].Authorization = "Bearer " \o Supplied(q)
          ELSE IF envToken.t = "str" /\ envToken.s # ""
            THEN Len(q.ups) = 1 /\ q.ups[1].Authorization = "Bearer " \o envToken.s
          ELSE /\ q.ups = <<>>
               /\ q.phase = "done"
               /\ q.rpc.kind = "error"
               /\ q.rpc.error.code = "InvalidRequest"

\* a request with a token has been served while the environment holds
\* another token, and the request went upstream with the token of the request
C15_Witness ==
  \E r \in Slots :
    /\ mode = "http"
    /\ reqs[r].auth = Str("Bearer A")
    /\ envToken = Str("E")
    /\ reqs[r].name = "get_domain_info"
    /\ Len(reqs[r].ups) = 1
    /\ reqs[r].ups[1].Authorization = "Bearer A"


\* the body is an initialize request or a batch that contains one
Initializes(body) ==
  \/ body.t = "obj" /\ Get(body, "method") = Str("initialize")
  \/ body.t = "arr" /\ \E i \in DOMAIN body.a :
                          body.a[i].t = "obj" /\ Get(body.a[i], "method") = Str("initialize")

\* C16 as stated: an authenticated /sse request of the HTTP mode is routed
\* by one of three rules: with a stored session id, to the stored transport
\* and no transport is created; with no session id and an initialize body,
\* to a new transport that is connected; otherwise it is answered 400 with
\* the JSON-RPC error code -32000 and no transport is created or used.
C16_RoutedByThreeRules ==
  [][\A r \in Slots :
       (/\ mode = "http"
        /\ Arrives(r)
        /\ reqs'[r].path = "/sse"
        /\ IsBearer(reqs'[r].auth))
       => LET q == reqs'[r]
          IN IF q.sid.t = "str" /\ q.sid.s \in DOMAIN transports
               THEN /\ q.phase = "handling"
                    /\ q.tid = transports[q.sid.s]
                    /\ sessionOf' = sessionOf
             ELSE IF q.sid.t = "undef" /\ Initializes(q.body)
               THEN /\ q.phase = "connecting"
                    /\ q.tid \notin DOMAIN sessionOf
                    /\ q.tid \in DOMAIN sessionOf'
                    /\ connected' = q.tid
             ELSE /\ q.phase = "done"
                  /\ q.status = 400
                  /\ q.json.t = "obj"
                  /\ Get(Get(q.json, "error"), "code") = Num(-32000)
                  /\ q.tid = 0
                  /\ sessionOf' = sessionOf
                  /\ connected' = connected]_vars


\* the number of query entries the first i members of ms give: none for
\* undefined and null, one per element for an array, one for a scalar
RECURSIVE EntryCount(_, _)
EntryCount(ms, i) ==
  IF i = 0 THEN 0
  ELSE EntryCount(ms, i - 1) +
       (IF ms[i].v.t \in {"undef", "null"} THEN 0
        ELSE IF ms[i].v.t = "arr" THEN Len(ms[i].v.a)
        ELSE 1)

\* sp holds, member after member and in order, key=String(value) for the
\* scalars and one 'key[]' entry per element for the arrays, and nothing else
QueryOf(sp, ms) ==
  /\ Len(sp) = EntryCount(ms, Len(ms))
  /\ \A i \in DOMAIN ms :
       LET at == EntryCount(ms, i - 1)
           v == ms[i].v
       IN IF v.t \in {"undef", "null"} THEN TRUE
          ELSE IF v.t = "arr"
            THEN \A j \in DOMAIN v.a :
                   /\ sp[at + j].k = ms[i].k \o "[]"
                   /\ sp[at + j].v = JSString(v.a[j])
          ELSE /\ sp[at + 1].k = ms[i].k
               /\ sp[at + 1].v = JSString(v)

\* C17: the request makeRequest hands to fetch, for the call of makeRequest
\* that handleToolCall makes: for GET the parameters are appended to the
\* query string (after what the endpoint itself holds) as above and no body
\* is sent; for another method nothing is appended and the body is the JSON
\* text of the body argument; the Authorization and Content-Type headers
\* are set and the origin is the fixed base URL.
C17_RequestBuilt ==
  \A r \in Slots :
    LET q == reqs[r]
        d == handleToolCall(q.name, q.args)
    IN Len(q.ups) > 0
       => /\ d.kind = "call"
          /\ q.ups[1].method = d.method
          /\ q.ups[1].url.origin = "https://www.fetchserp.com"
          /\ q.ups[1].url.pathname = Pathname(d.endpoint)
          /\ q.ups[1].ContentType = "application/json"
          /\ q.ups[1].Authorization =
               "Bearer " \o (IF Supplied(q) # "" THEN Supplied(q) ELSE envToken.s)
          /\ LET own == EndpointQuery(d.endpoint)
                  sp == q.ups[1].url.searchParams
                  appended == SubSeq(sp, Len(own) + 1, Len(sp))
             IN /\ Len(sp) >= Len(own)
                /\ SubSeq(sp, 1, Len(own)) = own
                /\ IF d.method = "GET"
                     THEN /\ QueryOf(appended, d.params.o)
                          /\ q.ups[1].body = Undef
                     ELSE /\ appended = <<>>
                          /\ q.ups[1].body = JSONstringify(d.body)

\* a GET with an array of two keywords, a null and a string has been built:
\* two 'keywords[]' entries, nothing for the null
C17_Witness ==
  \E r \in Slots :
    /\ reqs[r].name = "get_keywords_search_volume"
    /\ reqs[r].args = Obj(<<Member("keywords", Arr(<<Str("x"), Str("y")>>)),
                             Member("country", Null)>>)
    /\ Len(reqs[r].ups) = 1
    /\ reqs[r].ups[1].url.searchParams =
         <<Member("keywords[]", "x"), Member("keywords[]", "y")>>


\* the call failed with an McpError of the given code whose message starts
\* with the given text
FailedWith(q, code, start) ==
  /\ q.rpc.kind = "error"
  /\ q.rpc.content = <<>>
  /\ q.rpc.error.code = code
  /\ q.rpc.error.message # <<>>
  /\ q.rpc.error.message[1] = start

\* C18: a finished tool call has succeeded only if nothing failed; an
\* unknown name fails with MethodNotFound, a missing token with
\* InvalidRequest and a non-2xx answer with the InternalError of makeRequest,
\* codes and messages unchanged; a missing arguments object where the case
\* reads it, a network failure and a 2xx body that is not JSON fail with
\* InternalError 'Tool execution failed: ...'.
C18_FailuresAreMcpErrors ==
  \A r \in Slots :
    LET q == reqs[r]
    IN (q.phase = "done" /\ HasToolCall(q.body))
       => IF q.name \notin ListedNames
            THEN FailedWith(q, "MethodNotFound", "Unknown tool: ")
          ELSE IF q.args.t = "undef" /\ q.name \in {"scrape_webpage_js",
                                                      "scrape_webpage_js_proxy",
                                                      "get_serp_js_result"}
            THEN FailedWith(q, "InternalError", "Tool execution failed: ")
          ELSE IF q.ups = <<>>
            THEN FailedWith(q, "InvalidRequest", "FETCHSERP_API_TOKEN is required")
          ELSE IF q.resp.kind = "reject"
            THEN FailedWith(q, "InternalError", "Tool execution failed: ")
          ELSE IF ~(q.resp.status >= 200 /\ q.resp.status <= 299)
            THEN IF q.resp.readable
                   THEN FailedWith(q, "InternalError", "API request failed: ")
                   ELSE FailedWith(q, "InternalError", "Tool execution failed: ")
          ELSE IF ~q.resp.readable \/ q.resp.body.t = "garbage"
            THEN FailedWith(q, "InternalError", "Tool execution failed: ")
          ELSE q.rpc.kind = "result" /\ Len(q.rpc.content) = 1

\* a call whose upstream answered 200 with a body that is not JSON has failed
\* with the wrapped error
C18_Witness ==
  \E r \in Slots :
    /\ reqs[r].phase = "done"
    /\ reqs[r].name = "get_backlinks"
    /\ reqs[r].resp.kind = "response"
    /\ reqs[r].resp.status = 200
    /\ reqs[r].resp.body.t = "garbage"
    /\ reqs[r].rpc.error.code = "InternalError"
    /\ reqs[r].rpc.error.message[1] = "Tool execution failed: "


\* C19: the ListTools handler returns the catalog of 21 tools, the same in
\* every state and whatever tokens are available; running it issues no
\* upstream request and leaves currentToken, the session map and the
\* transports as they are.
C19_ListFixedNoEffect ==
  [][\A r \in Slots :
       (/\ reqs[r].phase = "handling"
        /\ Get(reqs[r].body, "method") = Str("tools/list")
        /\ reqs'[r] # reqs[r])
       => /\ reqs'[r].phase = "done"
          /\ reqs'[r].rpc.kind = "tools"
          /\ Len(reqs'[r].rpc.content) = 21
          /\ reqs'[r].rpc.content = ToolCatalog
          /\ reqs'[r].ups = <<>>
          /\ \A s \in Slots : Len(reqs'[s].ups) <= Len(reqs[s].ups)
          /\ currentToken' = currentToken
          /\ transports' = transports
          /\ sessionOf' = sessionOf
          /\ connected' = connected]_vars

\* the tools have been listed on stdio while no token is available at all
C19_Witness ==
  \E r \in Slots :
    /\ mode = "stdio"
    /\ envToken = Undef
    /\ currentToken = Null
    /\ reqs[r].phase = "done"
    /\ reqs[r].rpc.kind = "tools"
    /\ Len(reqs[r].rpc.content) = 21


\* the session id has been delivered to a client: a transport has answered
\* an initialize request with it
Delivered(id) == \E t \in DOMAIN sessionOf : sessionOf[t] = id

\* C20 as stated: in HTTP mode an authenticated /sse request bearing a
\* session id that an initialize response has delivered is routed to a
\* transport and never answered 400, under every interleaving.
C20_DeliveredSessionFound ==
  [][\A r \in Slots :
       (/\ mode = "http"
        /\ Arrives(r)
        /\ reqs'[r].path = "/sse"
        /\ IsBearer(reqs'[r].auth)
        /\ reqs'[r].sid.t = "str"
        /\ Delivered(reqs'[r].sid.s))
       => /\ reqs'[r].status # 400
          /\ reqs'[r].phase = "handling"
          /\ reqs'[r].tid \in DOMAIN sessionOf
          /\ sessionOf[reqs'[r].tid] = reqs'[r].sid.s]_vars


\* C21 as stated: an authenticated /sse request of the HTTP mode that is
\* answered 400 by the handler leaves currentToken and the session map as
\* they were before it.
C21_RejectedNoEffect ==
  [][\A r \in Slots :
       (/\ mode = "http"
        /\ Arrives(r)
        /\ reqs'[r].path = "/sse"
        /\ IsBearer(reqs'[r].auth)
        /\ reqs'[r].phase = "done"
        /\ reqs'[r].status = 400)
       => /\ currentToken' = currentToken
          /\ transports' = transports]_vars


\* the finished request of slot r created the session that is stored under
\* the id its transport generated
Created(r) ==
  /\ reqs[r].phase = "done"
  /\ reqs[r].path = "/sse"
  /\ reqs[r].tid \in DOMAIN sessionOf
  /\ Initializes(reqs[r].body)
  /\ sessionOf[reqs[r].tid] \in DOMAIN transports
  /\ transports[sessionOf[reqs[r].tid]] = reqs[r].tid

\* C22 as stated: in HTTP mode a request that is routed to the transport of
\* a stored session presents the Authorization header of the initialize
\* request that created the session.
C22_SessionBoundToToken ==
  [][\A r, s \in Slots :
       (/\ mode = "http"
        /\ Created(r)
        /\ Arrives(s)
        /\ reqs'[s].sid = Str(sessionOf[reqs[r].tid])
        /\ reqs'[s].phase = "handling"
        /\ reqs'[s].tid = reqs[r].tid)
       => reqs'[s].auth = reqs[r].auth]_vars


\* C23 as stated: for every uuid string a call of get_serp_js_result issues a
\* GET without query string whose path is '/api/v1/serp_js/' followed by the
\* uuid as one segment, and a call of get_user_info a GET of '/api/v1/user'
\* without query string whatever the arguments.
C23_UuidIsOneSegment ==
  \A r \in Slots :
    LET q == reqs[r]
    IN /\ (/\ Len(q.ups) > 0
           /\ q.name = "get_serp_js_result"
           /\ Get(q.args, "uuid").t = "str")
          => /\ q.ups[1].method = "GET"
             /\ q.ups[1].url.searchParams = <<>>
             /\ q.ups[1].url.pathname = "/api/v1/serp_js/" \o Get(q.args, "uuid").s
             /\ Len(Split(q.ups[1].url.pathname, "/")) = 5
       /\ (Len(q.ups) > 0 /\ q.name = "get_user_info")
          => /\ q.ups[1].method = "GET"
             /\ q.ups[1].url.searchParams = <<>>
             /\ q.ups[1].url.pathname = "/api/v1/user"

\* C24 as stated: in the HTTPS variant an authenticated /sse request bearing
\* the id of an established session is handled by the transport that issued
\* the id: no transport is created for it and the server is not connected to
\* another transport.
C24_HttpsSessionReused ==
  [][\A r \in Slots :
       (/\ mode = "https"
        /\ Arrives(r)
        /\ reqs'[r].path = "/sse"
        /\ IsBearer(reqs'[r].auth)
        /\ reqs'[r].sid.t = "str"
        /\ Delivered(reqs'[r].sid.s))
       => /\ reqs'[r].tid \in DOMAIN sessionOf
          /\ sessionOf[reqs'[r].tid] = reqs'[r].sid.s
          /\ DOMAIN sessionOf' = DOMAIN sessionOf
          /\ connected' = connected]_vars

(***************************************************************************)
(* The two other programs of the repository: the HTTPS variant and the     *)
(* variant that reads the token from the environment only.  Each has its   *)
(* own catalog, switch and makeRequest.  A property of a schema is kept    *)
(* with its type and its minimum and maximum, 0 when it declares none.     *)
(***************************************************************************)
SchemaProperty(k, type, minimum, maximum) ==
  [k |-> k, type |-> type, minimum |-> minimum, maximum |-> maximum]
SchemaTool(name, properties, required) ==
  [name |-> name, properties |-> properties, required |-> required]

ToolCatalogHttps ==
  << SchemaTool("get_backlinks",
                <<SchemaProperty("domain", "string", 0, 0),
                  SchemaProperty("search_engine", "string", 0, 0),
                  SchemaProperty("country", "string", 0, 0),
                  SchemaProperty("pages_number", "integer", 1, 30)>>,
                {"domain"}),
     SchemaTool("get_domain_emails",
                <<SchemaProperty("domain", "string", 0, 0),
                  SchemaProperty("search_engine", "string", 0, 0),
                  SchemaProperty("country", "string", 0, 0),
                  SchemaProperty("pages_number", "integer", 1, 30)>>,
                {"domain"}),
     SchemaTool("get_domain_info",
                <<SchemaProperty("domain", "string", 0, 0)>>,
                {"domain"}),
     SchemaTool("get_keywords_search_volume",
                <<SchemaProperty("keywords", "array", 0, 0),
                  SchemaProperty("country", "string", 0, 0)>>,
                {"keywords"}),
     SchemaTool("get_keywords_suggestions",
                <<SchemaProperty("url", "string", 0, 0),
                  SchemaProperty("keywords", "array", 0, 0),
                  SchemaProperty("country", "string", 0, 0)>>,
                {}),
     SchemaTool("get_long_tail_keywords",
                <<SchemaProperty("keyword", "string", 0, 0),
                  SchemaProperty("search_intent", "string", 0, 0),
                  SchemaProperty("count", "integer", 1, 500)>>,
                {"keyword"}),
     SchemaTool("get_moz_analysis",
                <<SchemaProperty("domain", "string", 0, 0)>>,
                {"domain"}),
     SchemaTool("check_page_indexation",
                <<SchemaProperty("domain", "string", 0, 0),
                  SchemaProperty("keyword", "string", 0, 0)>>,
                {"domain", "keyword"}),
     SchemaTool("get_domain_ranking",
                <<SchemaProperty("keyword", "string", 0, 0),
                  SchemaProperty("domain", "string", 0, 0),
                  SchemaProperty("search_engine", "string", 0, 0),
                  SchemaProperty("country", "string", 0, 0),
                  SchemaProperty("pages_number", "integer", 1, 30)>>,
                {"keyword", "domain"}),
     SchemaTool("scrape_webpage",
                <<SchemaProperty("url", "string", 0, 0)>>,
                {"url"}),
     SchemaTool("scrape_domain",
                <<SchemaProperty("domain", "string", 0, 0),
                  SchemaProperty("max_pages", "integer", 0, 200)>>,
                {"domain"}),
     SchemaTool("scrape_webpage_js",
                <<SchemaProperty("url", "string", 0, 0),
                  SchemaProperty("js_script", "string", 0, 0)>>,
                {"url", "js_script"}),
     SchemaTool("scrape_webpage_js_proxy",
                <<SchemaProperty("url", "string", 0, 0),
                  SchemaProperty("country", "string", 0, 0),
                  SchemaProperty("js_script", "string", 0, 0)>>,
                {"url", "country", "js_script"}),
     SchemaTool("get_serp_results",
                <<SchemaProperty("query", "string", 0, 0),
                  SchemaProperty("search_engine", "string", 0, 0),
                  SchemaProperty("country", "string", 0, 0),
                  SchemaProperty("pages_number", "integer", 1, 30)>>,
                {"query"}),
     SchemaTool("get_serp_html",
                <<SchemaProperty("query", "string", 0, 0),
                  SchemaProperty("search_engine", "string", 0, 0),
                  SchemaProperty("country", "string", 0, 0),
                  SchemaProperty("pages_number", "integer", 1, 30)>>,
                {"query"}),
     SchemaTool("get_serp_js_start",
                <<SchemaProperty("query", "string", 0, 0),
                  SchemaProperty("country", "string", 0, 0),
                  SchemaProperty("pages_number", "integer", 1, 10)>>,
                {"query"}),
     SchemaTool("get_serp_js_result",
                <<SchemaProperty("uuid", "string", 0, 0)>>,
                {"uuid"}),
     SchemaTool("get_serp_text",
                <<SchemaProperty("query", "string", 0, 0),
                  SchemaProperty("search_engine", "string", 0, 0),
                  SchemaProperty("country", "string", 0, 0),
                  SchemaProperty("pages_number", "integer", 1, 30)>>,
                {"query"}),
     SchemaTool("get_user_info",
                <<>>,
                {}),
     SchemaTool("get_webpage_ai_analysis",
                <<SchemaProperty("url", "string", 0, 0),
                  SchemaProperty("prompt", "string", 0, 0)>>,
                {"url", "prompt"}),
     SchemaTool("get_webpage_seo_analysis",
                <<SchemaProperty("url", "string", 0, 0)>>,
                {"url"}) >>

ToolCatalogEnv ==
  << SchemaTool("get_backlinks",
                <<SchemaProperty("domain", "string", 0, 0),
                  SchemaProperty("search_engine", "string", 0, 0),
                  SchemaProperty("country", "string", 0, 0),
                  SchemaProperty("pages_number", "integer", 1, 30)>>,
                {"domain"}),
     SchemaTool("get_domain_emails",
                <<SchemaProperty("domain", "string", 0, 0),
                  SchemaProperty("search_engine", "string", 0, 0),
                  SchemaProperty("country", "string", 0, 0),
                  SchemaProperty("pages_number", "integer", 1, 30)>>,
                {"domain"}),
     SchemaTool("get_domain_info",
                <<SchemaProperty("domain", "string", 0, 0)>>,
                {"domain"}),
     SchemaTool("get_keywords_search_volume",
                <<SchemaProperty("keywords", "array", 0, 0),
                  SchemaProperty("country", "string", 0, 0)>>,
                {"keywords"}),
     SchemaTool("get_keywords_suggestions",
                <<SchemaProperty("url", "string", 0, 0),
                  SchemaProperty("keywords", "array", 0, 0),
                  SchemaProperty("country", "string", 0, 0)>>,
                {}),
     SchemaTool("get_long_tail_keywords",
                <<SchemaProperty("keyword", "string", 0, 0),
                  SchemaProperty("search_intent", "string", 0, 0),
                  SchemaProperty("count", "integer", 1, 500)>>,
                {"keyword"}),
     SchemaTool("get_moz_analysis",
                <<SchemaProperty("domain", "string", 0, 0)>>,
                {"domain"}),
     SchemaTool("check_page_indexation",
                <<SchemaProperty("domain", "string", 0, 0),
                  SchemaProperty("keyword", "string", 0, 0)>>,
                {"domain", "keyword"}),
     SchemaTool("get_domain_ranking",
                <<SchemaProperty("keyword", "string", 0, 0),
                  SchemaProperty("domain", "string", 0, 0),
                  SchemaProperty("search_engine", "string", 0, 0),
                  SchemaProperty("country", "string", 0, 0),
                  SchemaProperty("pages_number", "integer", 1, 30)>>,
                {"keyword", "domain"}),
     SchemaTool("scrape_webpage",
                <<SchemaProperty("url", "string", 0, 0)>>,
                {"url"}),
     SchemaTool("scrape_domain",
                <<SchemaProperty("domain", "string", 0, 0),
                  SchemaProperty("max_pages", "integer", 0, 200)>>,
                {"domain"}),
     SchemaTool("scrape_webpage_js",
                <<SchemaProperty("url", "string", 0, 0),
                  SchemaProperty("js_script", "string", 0, 0)>>,
                {"url", "js_script"}),
     SchemaTool("scrape_webpage_js_proxy",
                <<SchemaProperty("url", "string", 0, 0),
                  SchemaProperty("country", "string", 0, 0),
                  SchemaProperty("js_script", "string", 0, 0)>>,
                {"url", "country", "js_script"}),
     SchemaTool("get_serp_results",
                <<SchemaProperty("query", "string", 0, 0),
                  SchemaProperty("search_engine", "string", 0, 0),
                  SchemaProperty("country", "string", 0, 0),
                  SchemaProperty("pages_number", "integer", 1, 30)>>,
                {"query"}),
     SchemaTool("get_serp_html",
                <<SchemaProperty("query", "string", 0, 0),
                  SchemaProperty("search_engine", "string", 0, 0),
                  SchemaProperty("country", "string", 0, 0),
                  SchemaProperty("pages_number", "integer", 1, 30)>>,
                {"query"}),
     SchemaTool("get_serp_js_start",
                <<SchemaProperty("query", "string", 0, 0),
                  SchemaProperty("country", "string", 0, 0),
                  SchemaProperty("pages_number", "integer", 1, 10)>>,
                {"query"}),
     SchemaTool("get_serp_js_result",
                <<SchemaProperty("uuid", "string", 0, 0)>>,
                {"uuid"}),
     SchemaTool("get_serp_text",
                <<SchemaProperty("query", "string", 0, 0),
                  SchemaProperty("search_engine", "string", 0, 0),
                  SchemaProperty("country", "string", 0, 0),
                  SchemaProperty("pages_number", "integer", 1, 30)>>,
                {"query"}),
     SchemaTool("get_user_info",
                <<>>,
                {}),
     SchemaTool("get_webpage_ai_analysis",
                <<SchemaProperty("url", "string", 0, 0),
                  SchemaProperty("prompt", "string", 0, 0)>>,
                {"url", "prompt"}),
     SchemaTool("get_webpage_seo_analysis",
                <<SchemaProperty("url", "string", 0, 0)>>,
                {"url"}) >>

\* the case labels of the switch, in source order
CaseNamesHttps ==
  << "get_backlinks",
     "get_domain_emails",
     "get_domain_info",
     "get_keywords_search_volume",
     "get_keywords_suggestions",
     "get_long_tail_keywords",
     "get_moz_analysis",
     "check_page_indexation",
     "get_domain_ranking",
     "scrape_webpage",
     "scrape_domain",
     "scrape_webpage_js",
     "scrape_webpage_js_proxy",
     "get_serp_results",
     "get_serp_html",
     "get_serp_js_start",
     "get_serp_js_result",
     "get_serp_text",
     "get_user_info",
     "get_webpage_ai_analysis",
     "get_webpage_seo_analysis" >>

HasCaseHttps(name) == \E i \in DOMAIN CaseNamesHttps : CaseNamesHttps[i] = name

\* the path literal of each case
CasePathHttps(name) ==
  CASE name = "get_backlinks" -> "/api/v1/backlinks"
    [] name = "get_domain_emails" -> "/api/v1/domain_emails"
    [] name = "get_domain_info" -> "/api/v1/domain_infos"
    [] name = "get_keywords_search_volume" -> "/api/v1/keywords_search_volume"
    [] name = "get_keywords_suggestions" -> "/api/v1/keywords_suggestions"
    [] name = "get_long_tail_keywords" -> "/api/v1/long_tail_keywords_generator"
    [] name = "get_moz_analysis" -> "/api/v1/moz"
    [] name = "check_page_indexation" -> "/api/v1/page_indexation"
    [] name = "get_domain_ranking" -> "/api/v1/ranking"
    [] name = "scrape_webpage" -> "/api/v1/scrape"
    [] name = "scrape_domain" -> "/api/v1/scrape_domain"
    [] name = "scrape_webpage_js" -> "/api/v1/scrape_js"
    [] name = "scrape_webpage_js_proxy" -> "/api/v1/scrape_js_with_proxy"
    [] name = "get_serp_results" -> "/api/v1/serp"
    [] name = "get_serp_html" -> "/api/v1/serp_html"
    [] name = "get_serp_js_start" -> "/api/v1/serp_js"
    [] name = "get_serp_js_result" -> "/api/v1/serp_js/"
    [] name = "get_serp_text" -> "/api/v1/serp_text"
    [] name = "get_user_info" -> "/api/v1/user"
    [] name = "get_webpage_ai_analysis" -> "/api/v1/web_page_ai_analysis"
    [] name = "get_webpage_seo_analysis" -> "/api/v1/web_page_seo_analysis"
    [] OTHER -> ""

CaseMethodHttps(name) ==
  IF name \in {"scrape_webpage_js", "scrape_webpage_js_proxy"} THEN "POST"
  ELSE IF HasCaseHttps(name) THEN "GET"
  ELSE ""

handleToolCallHttps(name, args) ==
  CASE name = "scrape_webpage_js" ->
         IF args.t = "undef" THEN Raise(TypeError)
         ELSE Call(CasePathHttps(name), CaseMethodHttps(name),
                   Literal(<<Member("url", Get(args, "url"))>>,
                           Rest(args, {"url", "js_script"})),
                   Obj(<<Member("url", Get(args, "url")),
                         Member("js_script", Get(args, "js_script"))>>))
    [] name = "scrape_webpage_js_proxy" ->
         IF args.t = "undef" THEN Raise(TypeError)
         ELSE Call(CasePathHttps(name), CaseMethodHttps(name),
                   Literal(<<Member("url", Get(args, "url")),
                             Member("country", Get(args, "country"))>>,
                           Rest(args, {"url", "country", "js_script"})),
                   Obj(<<Member("url", Get(args, "url")),
                         Member("js_script", Get(args, "js_script"))>>))
    [] name = "get_serp_js_result" ->
         IF args.t = "undef" THEN Raise(TypeError)
         ELSE Call(CasePathHttps(name) \o JSString(Get(args, "uuid")),
                   CaseMethodHttps(name), Obj(<<>>), Null)
    [] name = "get_user_info" ->
         Call(CasePathHttps(name), CaseMethodHttps(name), Obj(<<>>), Null)
    [] HasCaseHttps(name) /\ name \notin {"scrape_webpage_js", "scrape_webpage_js_proxy",
                                          "get_serp_js_result", "get_user_info"} ->
         Call(CasePathHttps(name), CaseMethodHttps(name), ParamsOrDefault(args), Null)
    [] OTHER -> Raise(Throw("MethodNotFound", <<"Unknown tool: ", name>>))

\* makeRequest of the HTTPS variant: token || process.env.FETCHSERP_API_TOKEN
makeRequestHttps(endpoint, method, params, body, token, env) ==
  LET fetchserpToken == IF Truthy(token) THEN token ELSE env
  IN IF ~Truthy(fetchserpToken)
       THEN [error |-> Throw("InvalidRequest", <<"FETCHSERP_API_TOKEN is required">>),
             request |-> NoRequest]
       ELSE [error |-> NoError,
             request |->
               [url |-> [origin |-> API_BASE_URL, pathname |-> Pathname(endpoint),
                         searchParams |->
                           EndpointQuery(endpoint)
                           \o (IF method = "GET" /\ Keys(params) # {}
                                 THEN QueryEntries(params.o) ELSE <<>>)],
                method |-> method,
                Authorization |-> "Bearer " \o fetchserpToken.s,
                ContentType |-> "application/json",
                body |-> IF body.t # "null" /\ method # "GET"
                           THEN JSONstringify(body) ELSE Undef]]

\* the case labels of the switch, in source order
CaseNamesEnv ==
  << "get_backlinks",
     "get_domain_emails",
     "get_domain_info",
     "get_keywords_search_volume",
     "get_keywords_suggestions",
     "get_long_tail_keywords",
     "get_moz_analysis",
     "check_page_indexation",
     "get_domain_ranking",
     "scrape_webpage",
     "scrape_domain",
     "scrape_webpage_js",
     "scrape_webpage_js_proxy",
     "get_serp_results",
     "get_serp_html",
     "get_serp_js_start",
     "get_serp_js_result",
     "get_serp_text",
     "get_user_info",
     "get_webpage_ai_analysis",
     "get_webpage_seo_analysis" >>

HasCaseEnv(name) == \E i \in DOMAIN CaseNamesEnv : CaseNamesEnv[i] = name

\* the path literal of each case
CasePathEnv(name) ==
  CASE name = "get_backlinks" -> "/api/v1/backlinks"
    [] name = "get_domain_emails" -> "/api/v1/domain_emails"
    [] name = "get_domain_info" -> "/api/v1/domain_infos"
    [] name = "get_keywords_search_volume" -> "/api/v1/keywords_search_volume"
    [] name = "get_keywords_suggestions" -> "/api/v1/keywords_suggestions"
    [] name = "get_long_tail_keywords" -> "/api/v1/long_tail_keywords_generator"
    [] name = "get_moz_analysis" -> "/api/v1/moz"
    [] name = "check_page_indexation" -> "/api/v1/page_indexation"
    [] name = "get_domain_ranking" -> "/api/v1/ranking"
    [] name = "scrape_webpage" -> "/api/v1/scrape"
    [] name = "scrape_domain" -> "/api/v1/scrape_domain"
    [] name = "scrape_webpage_js" -> "/api/v1/scrape_js"
    [] name = "scrape_webpage_js_proxy" -> "/api/v1/scrape_js_with_proxy"
    [] name = "get_serp_results" -> "/api/v1/serp"
    [] name = "get_serp_html" -> "/api/v1/serp_html"
    [] name = "get_serp_js_start" -> "/api/v1/serp_js"
    [] name = "get_serp_js_result" -> "/api/v1/serp_js/"
    [] name = "get_serp_text" -> "/api/v1/serp_text"
    [] name = "get_user_info" -> "/api/v1/user"
    [] name = "get_webpage_ai_analysis" -> "/api/v1/web_page_ai_analysis"
    [] name = "get_webpage_seo_analysis" -> "/api/v1/web_page_seo_analysis"
    [] OTHER -> ""

CaseMethodEnv(name) ==
  IF name \in {"scrape_webpage_js", "scrape_webpage_js_proxy"} THEN "POST"
  ELSE IF HasCaseEnv(name) THEN "GET"
  ELSE ""

\* a switch whose get_user_info case passes the arguments on as parameters
handleToolCallEnvArgsPassed(name, args) ==
  IF name = "get_user_info"
    THEN Call(CasePathEnv(name), CaseMethodEnv(name), ParamsOrDefault(args), Null)
    ELSE handleToolCall(name, args)

handleToolCallEnv(name, args) ==
  CASE name = "scrape_webpage_js" ->
         IF args.t = "undef" THEN Raise(TypeError)
         ELSE Call(CasePathEnv(name), CaseMethodEnv(name),
                   Literal(<<Member("url", Get(args, "url"))>>,
                           Rest(args, {"url", "js_script"})),
                   Obj(<<Member("url", Get(args, "url")),
                         Member("js_script", Get(args, "js_script"))>>))
    [] name = "scrape_webpage_js_proxy" ->
         IF args.t = "undef" THEN Raise(TypeError)
         ELSE Call(CasePathEnv(name), CaseMethodEnv(name),
                   Literal(<<Member("url", Get(args, "url")),
                             Member("country", Get(args, "country"))>>,
                           Rest(args, {"url", "country", "js_script"})),
                   Obj(<<Member("url", Get(args, "url")),
                         Member("js_script", Get(args, "js_script"))>>))
    [] name = "get_serp_js_result" ->
         IF args.t = "undef" THEN Raise(TypeError)
         ELSE Call(CasePathEnv(name) \o JSString(Get(args, "uuid")),
                   CaseMethodEnv(name), Obj(<<>>), Null)
    [] name = "get_user_info" ->
         Call(CasePathEnv(name), CaseMethodEnv(name), Obj(<<>>), Null)
    [] HasCaseEnv(name) /\ name \notin {"scrape_webpage_js", "scrape_webpage_js_proxy",
                                          "get_serp_js_result", "get_user_info"} ->
         Call(CasePathEnv(name), CaseMethodEnv(name), ParamsOrDefault(args), Null)
    [] OTHER -> Raise(Throw("MethodNotFound", <<"Unknown tool: ", name>>))

\* makeRequest of the env-token variant: the token is
\* process.env.FETCHSERP_API_TOKEN, nothing is taken from the request
makeRequestEnv(endpoint, method, params, body, env) ==
  IF ~Truthy(env)
    THEN [error |-> Throw("InvalidRequest",
                          <<"FETCHSERP_API_TOKEN environment variable is required">>),
          request |-> NoRequest]
    ELSE [error |-> NoError,
          request |->
            [url |-> [origin |-> API_BASE_URL, pathname |-> Pathname(endpoint),
                      searchParams |->
                        EndpointQuery(endpoint)
                        \o (IF method = "GET" /\ Keys(params) # {}
                              THEN QueryEntries(params.o) ELSE <<>>)],
             method |-> method,
             Authorization |-> "Bearer " \o env.s,
             ContentType |-> "application/json",
             body |-> IF body.t # "null" /\ method # "GET"
                        THEN JSONstringify(body) ELSE Undef]]

\* handleToolCall and makeRequest up to fetch, in each program
Upstream(name, args, token, env) ==
  LET d == handleToolCall(name, args)
  IN IF d.kind = "raise" THEN [error |-> d.error, request |-> NoRequest]
     ELSE makeRequest(d.endpoint, d.method, d.params, d.body, token, env)
UpstreamHttps(name, args, token, env) ==
  LET d == handleToolCallHttps(name, args)
  IN IF d.kind = "raise" THEN [error |-> d.error, request |-> NoRequest]
     ELSE makeRequestHttps(d.endpoint, d.method, d.params, d.body, token, env)
UpstreamEnv(name, args, env) ==
  LET d == handleToolCallEnv(name, args)
  IN IF d.kind = "raise" THEN [error |-> d.error, request |-> NoRequest]
     ELSE makeRequestEnv(d.endpoint, d.method, d.params, d.body, env)

\* the CallTool handler of the program that runs, up to its first await
VariantHandlerStart(program, q, token, env) ==
  LET m == CASE program = "index.js" -> Upstream(q.name, q.args, token, env)
             [] program = "part_001" -> UpstreamHttps(q.name, q.args, token, env)
             [] OTHER -> UpstreamEnv(q.name, q.args, env)
  IN IF m.error.kind = "throw"
       THEN [q EXCEPT !.phase = "done", !.token = token, !.status = 200,
                      !.rpc = ToolError(CatchError(m.error))]
       ELSE [q EXCEPT !.phase = "fetching", !.token = token,
                      !.ups = Append(q.ups, m.request)]

(***************************************************************************)
(* One tool call handled by one of the three programs.                     *)
(***************************************************************************)
Programs == {"index.js", "part_001", "env-token"}

\* the launches in which a tool call reaches the CallTool handler: index.js on
\* stdio or with its HTTP server, the two variants on stdio (the transport
\* the HTTPS variant creates for a request is not initialized, and the
\* env-token variant hands no request to the transport it creates)
VariantLaunches ==
  {Launch(FALSE, "index.js", Passed(m, Undef, t)) : m \in {Undef, Str("true")}, t \in EnvTokens}
  \cup {Launch(FALSE, p, Passed(Undef, Undef, t)) : p \in Programs \ {"index.js"}, t \in EnvTokens}

\* the names of the calls
VariantNames == AllNames

\* a call has reached the CallTool handler; over HTTP the request carried a
\* bearer token, which index.js has kept
InitVariants ==
  /\ certs = NoCerts
  /\ client = ClientIdle
  /\ launch \in VariantLaunches
  /\ mode = RunMode(launch)
  /\ envToken = ProcessEnv(launch)["FETCHSERP_API_TOKEN"]
  /\ currentToken = IF mode = "http" THEN Str("A") ELSE Null
  /\ transports = IF mode = "stdio" THEN <<>> ELSE ("s1" :> 1)
  /\ sessionOf = (1 :> IF mode = "stdio" THEN "" ELSE "s1")
  /\ connected = 1
  /\ \E name \in VariantNames : \E args \in ArgsFor(name) :
       reqs = [r \in Slots |->
                 IF r > 1 THEN Idle
                 ELSE IF mode = "stdio" THEN CallSlot(Undef, Undef, name, args)
                 ELSE CallSlot(Str("Bearer A"), Str("s1"), name, args)]

VariantCall(r) ==
  /\ reqs[r].phase = "handling"
  /\ reqs' = Put(r, VariantHandlerStart(launch.program, reqs[r], currentToken, envToken))
  /\ UNCHANGED <<certs, client, launch, mode, envToken, currentToken, transports, sessionOf, connected>>

NextVariants == \E r \in Slots : VariantCall(r)

SpecVariants == InitVariants /\ [][NextVariants]_vars

\* an integer property accepts n under the declared minimum and maximum
Accepts(p, n) ==
  /\ p.minimum = 0 \/ n >= p.minimum
  /\ p.maximum = 0 \/ n <= p.maximum

SchemaType(type) ==
  CASE type = "integer" -> "num" [] type = "array" -> "arr" [] OTHER -> "str"

\* the largest integer the schemas are compared on
MaxInteger == 501

\* a catalog lists the tools of index.js in the same order with the same
\* properties, required names, types and integer bounds
SameCatalog(tools) ==
  /\ Len(tools) = Len(ToolCatalog)
  /\ \A i \in DOMAIN ToolCatalog :
       /\ tools[i].name = ToolCatalog[i].name
       /\ {tools[i].properties[j].k : j \in DOMAIN tools[i].properties}
            = ToolCatalog[i].props
       /\ tools[i].required = ToolCatalog[i].required
       /\ \A j \in DOMAIN tools[i].properties :
            LET p == tools[i].properties[j]
            IN /\ SchemaType(p.type) = PropType(p.k)
               /\ \A n \in 0 .. MaxInteger :
                    Accepts(p, n) <=> InBounds(tools[i].name, p.k, n)

CatalogsAgree == SameCatalog(ToolCatalogHttps) /\ SameCatalog(ToolCatalogEnv)

\* two outcomes of a call that differ in the Authorization header at most
SameButToken(a, b) ==
  /\ a.error = b.error
  /\ [a.request EXCEPT !.Authorization = ""] = [b.request EXCEPT !.Authorization = ""]

\* C25: the three programs list the same tools with the same schemas, and
\* for every tool name and argument object, each with a token at hand, they
\* raise the same error or issue the same upstream method, path, query
\* string and body; the request the running program issues is that one, with
\* the header token (or the environment's) in index.js and the HTTPS
\* variant and the environment's token in the env-token variant.
C25_VariantsEquivalent ==
  /\ CatalogsAgree
  /\ \A r \in Slots :
       LET q == reqs[r]
           a == Upstream(q.name, q.args, Str("A"), Undef)
           b == UpstreamHttps(q.name, q.args, Str("A"), Undef)
           c == UpstreamEnv(q.name, q.args, Str("E"))
           token == IF launch.program = "env-token" THEN envToken
                    ELSE FetchserpToken(currentToken, envToken)
       IN q.phase \in {"fetching", "done"}
          => /\ SameButToken(a, b)
             /\ SameButToken(a, c)
             /\ Len(q.ups) = 1
                  => /\ [q.ups[1] EXCEPT !.Authorization = ""]
                          = [a.request EXCEPT !.Authorization = ""]
                     /\ q.ups[1].Authorization = "Bearer " \o token.s
             /\ (Len(q.ups) = 0 /\ Truthy(token))
                  => /\ a.error.kind = "throw"
                     /\ q.rpc = ToolError(CatchError(a.error))

\* the env-token variant has issued the POST of scrape_webpage_js_proxy with
\* a body and the token of its environment
C25_Witness ==
  /\ launch.program = "env-token"
  /\ \E r \in Slots :
       /\ reqs[r].name = "scrape_webpage_js_proxy"
       /\ Len(reqs[r].ups) = 1
       /\ reqs[r].ups[1].method = "POST"
       /\ reqs[r].ups[1].body # Undef
       /\ reqs[r].ups[1].Authorization = "Bearer E"

(***************************************************************************)
(* The HTTP mode of the env-token variant: run, the middleware of /mcp and *)
(* the POST /mcp route.                                                    *)
(***************************************************************************)
\* res.status(401).json({ error: 'Unauthorized' })
McpUnauthorizedBody == Obj(<<Member("error", Str("Unauthorized"))>>)

\* res.status(500).json({ error: 'Internal server error' })
McpServerErrorBody == Obj(<<Member("error", Str("Internal server error"))>>)

\* a middleware that accepts every header starting with 'Bearer '
McpUnauthorizedByPrefix(authHeader, fetchserpToken) == Unauthorized(authHeader)

\* !authHeader || authHeader !== `Bearer ${fetchserpToken}`
McpUnauthorized(authHeader, fetchserpToken) ==
  \/ ~Truthy(authHeader)
  \/ authHeader # Str("Bearer " \o fetchserpToken.s)

McpTokens == {Undef, Str(""), Str("E")}
McpLaunches ==
  {Launch(FALSE, "env-token", Passed(m, Undef, t)) : m \in {Undef, Str("true")}, t \in McpTokens}

McpMethods == {"GET", "POST"}
McpPaths == {"/mcp", "/mcp/x"}
McpAuthHeaders ==
  {Undef, Str(""), Str("Bearer E"), Str("Bearer A"), Str("Bearer "), Str("bearer E"),
   Str("Bearer E "), Str("Basic E")}

\* the state after run: in HTTP mode without a token run has thrown before
\* app.listen and nothing is served
InitMcp ==
  /\ certs = NoCerts
  /\ client = ClientIdle
  /\ launch \in McpLaunches
  /\ mode = RunMode(launch)
  /\ envToken = ProcessEnv(launch)["FETCHSERP_API_TOKEN"]
  /\ currentToken = Null
  /\ transports = <<>>
  /\ sessionOf = IF mode = "stdio" THEN (1 :> "") ELSE <<>>
  /\ connected = IF mode = "stdio" THEN 1 ELSE 0
  /\ reqs = [r \in Slots |-> Idle]

\* a request under /mcp: the middleware, then for POST /mcp the route up to
\* `await this.server.connect(transport)`; another method or path has no
\* route and gets the 404 of Express
McpRequest(r) ==
  /\ mode = "mcp"
  /\ FirstFree(r)
  /\ \E method \in McpMethods, path \in McpPaths, auth \in McpAuthHeaders :
       LET q == [Idle EXCEPT !.method = method, !.path = path, !.auth = auth,
                             !.body = Message("tools/list")]
       IN IF McpUnauthorized(auth, envToken)
            THEN /\ reqs' = Put(r, [q EXCEPT !.phase = "done", !.status = 401,
                                              !.json = McpUnauthorizedBody])
                 /\ UNCHANGED <<sessionOf, connected>>
          ELSE IF method = "POST" /\ path = "/mcp"
            THEN /\ NewTid <= MaxTransports
                 /\ sessionOf' = sessionOf @@ (NewTid :> "")
                 /\ connected' = NewTid
                 /\ reqs' = Put(r, [q EXCEPT !.phase = "connecting", !.tid = NewTid])
          ELSE /\ reqs' = Put(r, [q EXCEPT !.phase = "done", !.status = 404])
               /\ UNCHANGED <<sessionOf, connected>>
  /\ UNCHANGED <<certs, client, launch, mode, envToken, currentToken, transports>>

\* connect has settled: the route returns without handing the request to
\* the transport, so nothing is answered; or connect has thrown and the
\* catch answers 500
McpConnected(r) ==
  /\ mode = "mcp"
  /\ reqs[r].phase = "connecting"
  /\ \E thrown \in BOOLEAN :
       reqs' = Put(r, IF thrown
                        THEN [reqs[r] EXCEPT !.phase = "done", !.status = 500,
                                             !.json = McpServerErrorBody]
                        ELSE [reqs[r] EXCEPT !.phase = "open"])
  /\ UNCHANGED <<certs, client, launch, mode, envToken, currentToken, transports, sessionOf, connected>>

\* the client gives up a request that is never answered
McpClosed(r) ==
  /\ mode = "mcp"
  /\ reqs[r].phase = "open"
  /\ reqs' = Put(r, [reqs[r] EXCEPT !.phase = "done"])
  /\ UNCHANGED <<certs, client, launch, mode, envToken, currentToken, transports, sessionOf, connected>>

NextMcp ==
  \/ \E r \in Slots : McpRequest(r)
  \/ \E r \in Slots : McpConnected(r)
  \/ \E r \in Slots : McpClosed(r)

SpecMcp == InitMcp /\ [][NextMcp]_vars

\* C26: the env-token variant started in HTTP mode without
\* FETCHSERP_API_TOKEN serves nothing; a request under /mcp reaches the route
\* handler only when its Authorization header is exactly 'Bearer ' followed
\* by the token of the environment, and every request with another header
\* is answered 401 and creates no transport.
C26_McpNeedsExactToken ==
  /\ []((/\ ProcessEnv(launch)["MCP_HTTP_MODE"] = Str("true")
         /\ ~Truthy(ProcessEnv(launch)["FETCHSERP_API_TOKEN"]))
        => /\ mode = "failed"
           /\ connected = 0
           /\ \A r \in Slots : reqs[r] = Idle)
  /\ [][\A r \in Slots :
          Arrives(r)
          => /\ Truthy(envToken)
             /\ reqs'[r].phase = "connecting"
                  => reqs'[r].auth = Str("Bearer " \o envToken.s)
             /\ reqs'[r].auth # Str("Bearer " \o envToken.s)
                  => /\ reqs'[r].phase = "done"
                     /\ reqs'[r].status = 401
                     /\ reqs'[r].json = McpUnauthorizedBody
                     /\ sessionOf' = sessionOf
                     /\ connected' = connected]_vars

\* a request with the exact header has reached the route and one whose
\* header has the token of another caller has been answered 401
C26_Witness ==
  /\ mode = "mcp"
  /\ \E r, s \in Slots :
       /\ reqs[r].phase = "connecting"
       /\ reqs[r].auth = Str("Bearer E")
       /\ reqs[s].status = 401
       /\ reqs[s].auth = Str("Bearer A")
       /\ reqs[s].method = "POST"

(***************************************************************************)
(* The OpenAI example (simple-openai-mcp-example.js): main creates a       *)
(* response, then loops: it answers an approval request, stops at a        *)
(* completed get_serp_results call with output, or sleeps and retrieves    *)
(* the response again.  The variable client holds the script's state.      *)
(***************************************************************************)
\* bounds of the example: responses created in a run, and polls after which
\* a response that was still in progress is complete
MaxResponses == 3
MaxPending == 1

\* what response.output holds about tool calls: no mcp_call, an mcp_call of
\* get_serp_results with output, one that failed (error, no output), or an
\* mcp_call with output of another tool
CallKinds == {"none", "output", "failed", "other"}

\* a response: pending polls before it is complete; its output is final
\* and visible once it is complete
ApiResponse(id, pending, approval, call) ==
  [id |-> id, pending |-> pending, approval |-> approval, call |-> call]
NoApiResponse == ApiResponse(0, 0, FALSE, "none")

\* the responses the API can answer a create with: the last response of a
\* run asks for no approval
CreateAnswers(id) ==
  {ApiResponse(id, n, a, c) :
     n \in 0 .. MaxPending, a \in IF id < MaxResponses THEN BOOLEAN ELSE {FALSE},
     c \in CallKinds}

\* response.output?.find((item) => item.type === "mcp_approval_request")
ApprovalReq(response) == response.pending = 0 /\ response.approval

\* response.output?.find((item) => item.type === "mcp_call" &&
\*   item.name === "get_serp_results" && item.output)
ToolCallFound(response) == response.pending = 0 /\ response.call = "output"

\* the three variables main requires
ExampleEnvNames == {"OPENAI_API_KEY", "FETCHSERP_API_TOKEN", "MCP_SERVER_URL"}

ExampleState(pc, env, response, approved) ==
  [pc |-> pc, env |-> env, response |-> response, approved |-> approved]

InitExample ==
  /\ \E env \in SUBSET ExampleEnvNames :
       client = ExampleState("main", env, NoApiResponse, <<>>)
  /\ certs = NoCerts
  /\ launch = Launch(FALSE, "index.js", Passed(Str("true"), Undef, Undef))
  /\ mode = RunMode(launch)
  /\ envToken = Undef
  /\ currentToken = Null
  /\ transports = <<>>
  /\ sessionOf = <<>>
  /\ connected = 0
  /\ reqs = [r \in Slots |-> Idle]

\* the environment check and the first openai.responses.create
ExampleMain ==
  /\ client.pc = "main"
  /\ client' = [client EXCEPT !.pc = IF client.env # ExampleEnvNames THEN "exit 1"
                                     ELSE "creating"]
  /\ ServerVarsUnchanged

\* the first create settles: with a response, or it throws and the catch
\* of main logs the error
ExampleCreated ==
  /\ client.pc = "creating"
  /\ \/ \E response \in CreateAnswers(1) :
          client' = [client EXCEPT !.pc = "loop", !.response = response]
     \/ client' = [client EXCEPT !.pc = "caught"]
  /\ ServerVarsUnchanged

\* an iteration of while (true) up to its await or its break
ExampleIterate ==
  /\ client.pc = "loop"
  /\ client' = [client EXCEPT !.pc = IF ApprovalReq(client.response) THEN "approving"
                                     ELSE IF ToolCallFound(client.response) THEN "stopped"
                                     ELSE "sleeping"]
  /\ ServerVarsUnchanged

\* the create that carries the mcp_approval_response settles; continue
ExampleApproved ==
  /\ client.pc = "approving"
  /\ \/ \E response \in CreateAnswers(client.response.id + 1) :
          client' = [client EXCEPT
                       !.pc = "loop", !.response = response,
                       !.approved = Append(client.approved,
                                           [previous_response_id |-> client.response.id,
                                            approve |-> TRUE])]
     \/ client' = [client EXCEPT !.pc = "caught"]
  /\ ServerVarsUnchanged

\* the timer of 2000 ms fires
ExampleTimer ==
  /\ client.pc = "sleeping"
  /\ client' = [client EXCEPT !.pc = "retrieving"]
  /\ ServerVarsUnchanged

\* openai.responses.retrieve(response.id) settles: the same response, one
\* poll nearer to its completion, unchanged once complete; or it throws
ExampleRetrieved ==
  /\ client.pc = "retrieving"
  /\ \/ client' = [client EXCEPT
                     !.pc = "loop",
                     !.response.pending = IF client.response.pending > 0
                                            THEN client.response.pending - 1 ELSE 0]
     \/ client' = [client EXCEPT !.pc = "caught"]
  /\ ServerVarsUnchanged

NextExample ==
  \/ ExampleMain
  \/ ExampleCreated
  \/ ExampleIterate
  \/ ExampleApproved
  \/ ExampleTimer
  \/ ExampleRetrieved

\* every pending promise of the script settles and every timer fires
SpecExample == InitExample /\ [][NextExample]_vars /\ WF_vars(NextExample)

\* C27 as stated: the main loop terminates; from the first response on it
\* stops after finitely many iterations (here also counted as stopping: an
\* error of the API caught by main).
C27_LoopTerminates ==
  (client.pc = "loop") ~> (client.pc \in {"stopped", "caught"})

(***************************************************************************)
(* createSelfSignedCerts of the HTTPS variant, called at every start with  *)
(* USE_SELF_SIGNED=true or DOMAIN=localhost.  The directory may hold files *)
(* of an earlier run.                                                      *)
(***************************************************************************)
\* the calls of a behaviour
MaxCalls == 6

\* process.env.DOMAIN || 'mcp.fetchserp.com'
Domains == {"localhost", "mcp.fetchserp.com"}

\* { keyFile, certFile }
Paths == [kind |-> "return", keyFile |-> "./certs/key.pem", certFile |-> "./certs/cert.pem"]
\* throw error
Thrown == [kind |-> "throw", keyFile |-> "", certFile |-> ""]

\* execSync of openssl: it writes both files and exits 0; it fails before
\* it writes anything (not installed); or it fails after the key is written
OpensslOutcomes == {"ok", "failed", "failed after key"}

\* a check that never finds the files
CertsExistNever(c) == FALSE

\* fs.existsSync(keyFile) && fs.existsSync(certFile)
CertsExist(c) == c.key /\ c.cert

InitCerts ==
  /\ \E dir, key, cert \in BOOLEAN, subject \in Domains :
       /\ (key \/ cert) => dir
       /\ certs = CertState(dir, key, cert, IF cert THEN subject ELSE "", 0, 0, 0, NoPaths)
  /\ client = ClientIdle
  /\ launch = Launch(FALSE, "part_001", Passed(Undef, Str("true"), Undef))
  /\ mode = RunMode(launch)
  /\ envToken = Undef
  /\ currentToken = Null
  /\ transports = <<>>
  /\ sessionOf = <<>>
  /\ connected = 0
  /\ reqs = [r \in Slots |-> Idle]

\* one call of createSelfSignedCerts(domain); mkdirSync can throw as well
createSelfSignedCerts ==
  /\ certs.calls < MaxCalls
  /\ \E domain \in Domains, mkdir \in BOOLEAN, openssl \in OpensslOutcomes :
       LET c == [certs EXCEPT !.calls = @ + 1]
       IN certs' =
            IF CertsExist(certs) THEN [c EXCEPT !.result = Paths]
            ELSE IF ~certs.dir /\ ~mkdir THEN [c EXCEPT !.result = Thrown]
            ELSE IF openssl = "ok"
              THEN [c EXCEPT !.dir = TRUE, !.key = TRUE, !.cert = TRUE, !.subject = domain,
                             !.execs = @ + 1, !.generated = @ + 1, !.result = Paths]
            ELSE IF openssl = "failed after key"
              THEN [c EXCEPT !.dir = TRUE, !.key = TRUE, !.execs = @ + 1, !.result = Thrown]
            ELSE [c EXCEPT !.dir = TRUE, !.execs = @ + 1, !.result = Thrown]
  /\ UNCHANGED <<client, launch, mode, envToken, currentToken, transports, sessionOf,
                 connected, reqs>>

NextCerts == createSelfSignedCerts

SpecCerts == InitCerts /\ [][NextCerts]_vars

\* C28: a call that finds both files returns their paths, runs no openssl
\* and writes nothing; over any number of calls a certificate is generated
\* at most once; a call whose generation fails throws and returns no paths.
C28_CertsGeneratedOnce ==
  /\ [](certs.generated <= 1)
  /\ [][
        /\ (certs.key /\ certs.cert)
           => /\ certs'.result = Paths
              /\ certs'.execs = certs.execs
              /\ certs'.generated = certs.generated
              /\ <<certs'.dir, certs'.key, certs'.cert, certs'.subject>>
                   = <<certs.dir, certs.key, certs.cert, certs.subject>>
        /\ (certs'.execs # certs.execs /\ certs'.generated = certs.generated)
           => certs'.result = Thrown
        /\ certs'.result.kind = "return" => (certs'.key /\ certs'.cert)
     ]_vars

\* a generation has failed after the key was written, a later call has
\* generated the certificate and the call after it has found the files
C28_Witness ==
  /\ certs.calls >= 3
  /\ certs.execs = 2
  /\ certs.generated = 1
  /\ certs.result = Paths

====
